---- MODULE Spec2Model ----
(***************************************************************************)
(* VoiceWeave Studio: the project registry, the project namer, the file    *)
(* reference manager and the pipeline orchestrator of app.go, as a state   *)
(* machine over the projects folder, the settings document and the linked  *)
(* source files.                                                           *)
(*                                                                         *)
(* Go strings are sequences of one-character strings, so that the string   *)
(* functions of app.go (sanitizeForFilename, extractVideoID, the folder    *)
(* name format, filepath.Base/Ext, strings.ToUpper) are computed as the    *)
(* code computes them.  A nil pointer is the empty sequence and a non-nil  *)
(* pointer to v is <<v>>.                                                  *)
(***************************************************************************)
EXTENDS Integers, Sequences, FiniteSets, TLC

\* ------------------------------------------------------------------------
\* Bounds of the model
\* ------------------------------------------------------------------------

\* number of distinct values crypto/rand is let to return
NumIds == 6
\* number of folders the projects root may hold at once
MaxFolders == 2
\* seconds the clock may advance
MaxClock == 1
\* number of folders where one project at a time is followed
SoleFolder == 1

\* ------------------------------------------------------------------------
\* Strings
\* ------------------------------------------------------------------------

None == <<>>
Some(v) == <<v>>

\* The characters the model uses, in ASCII order.
Ascii ==
    << " ", "\"", "&", "(", ")", "*", "-", ".", "/",
       "0", "1", "2", "3", "4", "5", "6", "7", "8", "9",
       ":", "<", "=", ">", "?",
       "D", "E", "L", "N", "S", "T", "U", "V", "Y", "[", "\\", "]", "_",
       "a", "b", "c", "d", "e", "h", "i", "l", "m", "n", "o", "p", "s", "t",
       "u", "v", "w", "y", "|" >>

Code(c) == CHOOSE i \in 1..Len(Ascii) : Ascii[i] = c

Digits == <<"0", "1", "2", "3", "4", "5", "6", "7", "8", "9">>

\* fmt.Sprintf("%d", n) for n >= 0
RECURSIVE Dec(_)
Dec(n) == IF n < 10 THEN <<Digits[n + 1]>> ELSE Dec(n \div 10) \o <<Digits[(n % 10) + 1]>>

\* byte-wise s < t, the order os.ReadDir returns entries in
StrLess(s, t) ==
    LET n    == IF Len(s) < Len(t) THEN Len(s) ELSE Len(t)
        diff == {i \in 1..n : s[i] # t[i]}
    IN  IF diff = {} THEN Len(s) < Len(t)
        ELSE LET i == CHOOSE d \in diff : \A e \in diff : d <= e
             IN  Code(s[i]) < Code(t[i])

HasPrefix(s, p) == Len(p) <= Len(s) /\ SubSeq(s, 1, Len(p)) = p

\* strings.Index: the first position (from 1) at which sub occurs in s, 0 if none
Index(s, sub) ==
    LET hits == {i \in 1..(Len(s) - Len(sub) + 1) : SubSeq(s, i, i + Len(sub) - 1) = sub}
    IN  IF hits = {} THEN 0 ELSE CHOOSE i \in hits : \A j \in hits : i <= j

\* strings.LastIndex
LastIndex(s, sub) ==
    LET hits == {i \in 1..(Len(s) - Len(sub) + 1) : SubSeq(s, i, i + Len(sub) - 1) = sub}
    IN  IF hits = {} THEN 0 ELSE CHOOSE i \in hits : \A j \in hits : i >= j

Contains(s, sub) == Index(s, sub) > 0

\* strings.Split(s, sep) for a non-empty sep: the pieces between the occurrences
RECURSIVE Split(_, _)
Split(s, sep) ==
    LET i == Index(s, sep)
    IN  IF i = 0 THEN <<s>>
        ELSE <<SubSeq(s, 1, i - 1)>> \o Split(SubSeq(s, i + Len(sep), Len(s)), sep)

\* strings.ReplaceAll(s, old, new) for a one-character old
ReplaceAll(s, old, new) == [i \in 1..Len(s) |-> IF s[i] = old THEN new ELSE s[i]]

\* strings.TrimSpace, the only white space of the model being the blank
RECURSIVE TrimLeft(_)
TrimLeft(s) == IF s # <<>> /\ Head(s) = " " THEN TrimLeft(Tail(s)) ELSE s

RECURSIVE TrimRight(_)
TrimRight(s) ==
    IF s # <<>> /\ s[Len(s)] = " " THEN TrimRight(SubSeq(s, 1, Len(s) - 1)) ELSE s

TrimSpace(s) == TrimRight(TrimLeft(s))

\* strings.ToUpper on the letters of the model
UpperOf(c) ==
    CASE c = "d" -> "D" [] c = "e" -> "E" [] c = "l" -> "L" [] c = "n" -> "N"
      [] c = "s" -> "S" [] c = "t" -> "T" [] c = "u" -> "U" [] c = "v" -> "V"
      [] c = "y" -> "Y" [] OTHER -> c

ToUpper(s) == [i \in 1..Len(s) |-> UpperOf(s[i])]

\* strings.TrimSuffix
TrimSuffix(s, suf) ==
    IF Len(suf) <= Len(s) /\ SubSeq(s, Len(s) - Len(suf) + 1, Len(s)) = suf
    THEN SubSeq(s, 1, Len(s) - Len(suf)) ELSE s

\* filepath.Base on a Unix path: trailing slashes dropped, then the last element
RECURSIVE TrimSlashes(_)
TrimSlashes(s) ==
    IF s # <<>> /\ s[Len(s)] = "/" THEN TrimSlashes(SubSeq(s, 1, Len(s) - 1)) ELSE s

Base(path) ==
    IF path = <<>> THEN <<".">>
    ELSE LET p == TrimSlashes(path)
             i == LastIndex(p, <<"/">>)
         IN  IF p = <<>> THEN <<"/">> ELSE SubSeq(p, i + 1, Len(p))

\* filepath.Ext: the suffix from the last dot of the last element, "" if none
Ext(path) ==
    LET dot   == LastIndex(path, <<".">>)
        slash == LastIndex(path, <<"/">>)
    IN  IF dot > slash THEN SubSeq(path, dot, Len(path)) ELSE <<>>

\* filepath.Join(dir, name) for a clean dir
Join(dir, name) == dir \o <<"/">> \o name

\* ------------------------------------------------------------------------
\* ProjectNamer
\* ------------------------------------------------------------------------

\* the length sanitizeForFilename cuts a name to
NameCap == 50

\* the characters sanitizeForFilename replaces by "-"
Reserved == {"/", "\\", ":", "*", "?", "\"", "<", ">", "|"}

sanitizeForFilename(name) ==
    LET replaced == [i \in 1..Len(name) |-> IF name[i] \in Reserved THEN "-" ELSE name[i]]
        cut      == IF Len(replaced) > NameCap THEN SubSeq(replaced, 1, NameCap) ELSE replaced
    IN  TrimSpace(cut)

WatchMarker == <<"y", "o", "u", "t", "u", "b", "e", ".", "c", "o", "m", "/", "w", "a", "t", "c", "h", "?", "v", "=">>
ShortMarker == <<"y", "o", "u", "t", "u", ".", "b", "e", "/">>

\* the length of a bare YouTube id
BareIdLen == 11

extractVideoID(url) ==
    LET bare == IF Len(url) = BareIdLen /\ ~Contains(url, <<"/">>) THEN url ELSE <<>>
    IN  IF Contains(url, WatchMarker)
        THEN LET parts == Split(url, <<"v", "=">>)
             IN  IF Len(parts) > 1 THEN Split(parts[2], <<"&">>)[1] ELSE bare
        ELSE IF Contains(url, ShortMarker)
        THEN LET parts == Split(url, ShortMarker)
             IN  IF Len(parts) > 1 THEN Split(parts[2], <<"?">>)[1] ELSE bare
        ELSE bare

\* fmt.Sprintf("%s [%s] [%s]", sanitizeForFilename(displayName), videoID, ToUpper(targetLang))
FolderBase(displayName, videoID, targetLang) ==
    sanitizeForFilename(displayName) \o <<" ", "[">> \o videoID \o <<"]", " ", "[">>
        \o ToUpper(targetLang) \o <<"]">>

\* the name the clash loop tries at a given version
Candidate(baseName, version) ==
    IF version = 1 THEN baseName
    ELSE baseName \o <<" ", "(">> \o Dec(version) \o <<")">>

\* the loop of resolveProjectNameClash from a given version on; entries are the
\* names present in the projects folder
RECURSIVE ClashLoop(_, _, _)
ClashLoop(entries, baseName, version) ==
    IF Candidate(baseName, version) \notin entries
    THEN [name |-> Candidate(baseName, version), version |-> version]
    ELSE ClashLoop(entries, baseName, version + 1)

\* resolveProjectNameClash never trying the bare base name
resolveSuffixedName(entries, baseName) == ClashLoop(entries, baseName, 2)

resolveProjectNameClash(entries, baseName) == ClashLoop(entries, baseName, 1)

\* ------------------------------------------------------------------------
\* Data model: ProjectConfig, FileReference, AppSettings and their JSON form
\* ------------------------------------------------------------------------

Steps == <<"download", "transcribe", "translate", "synthesize", "combine">>
StepNames == {Steps[i] : i \in 1..Len(Steps)}

\* time.Now().Format(time.RFC3339) and Python's datetime.now().isoformat() print
\* the same instant in different layouts
RFC3339(sec) == [layout |-> "RFC3339", sec |-> sec]
IsoFormat(sec) == [layout |-> "isoformat", sec |-> sec]

\* CompletedSteps{}: the zero value
NoStepsCompleted == [s \in StepNames |-> FALSE]

\* FileReferences{}: the zero value
NoFileReferences ==
    [videoFile |-> None, audioFile |-> None, segmentsFile |-> None,
     finalAudio |-> None, finalVideo |-> None]

\* the settings CreateProject gives every project
DefaultProjectSettings ==
    [transcription |-> [source |-> "whisperx", enableDiarization |-> TRUE, language |-> "en"],
     translation   |-> [mode |-> "simple", simpleModel |-> "m2m100_418m"],
     audio         |-> [preventOverlaps |-> TRUE, minGap |-> 100, globalCrossfade |-> FALSE,
                        crossfadeDuration |-> 150, effectsPreset |-> "voice"],
     cleanup       |-> [mode |-> "auto", keepIntermediateFiles |-> FALSE]]

\* the fields of ProjectConfig and of FileReference tagged omitempty
ProjectOptional == {"sourceUrl", "videoId", "originalFilename"}
ProjectRequired ==
    {"id", "name", "created", "lastModified", "version", "sourceType", "targetLanguage",
     "completedSteps", "fileReferences", "settings", "textRules", "segmentRules"}
RefOptional == {"originalPath", "size", "lastModified"}
RefRequired == {"path", "isLinked"}
RefsKeys == {"videoFile", "audioFile", "segmentsFile", "finalAudio", "finalVideo"}

\* json.Marshal of a FileReference: a nil pointer field is left out
MarshalRef(ref) ==
    [k \in RefRequired \cup {o \in RefOptional : ref[o] # None} |->
        IF k \in RefOptional THEN ref[k][1] ELSE ref[k]]

UnmarshalRef(j) ==
    [k \in RefRequired \cup RefOptional |->
        IF k \in RefOptional THEN (IF k \in DOMAIN j THEN Some(j[k]) ELSE None)
        ELSE IF k \in DOMAIN j THEN j[k]
        ELSE IF k = "isLinked" THEN FALSE ELSE <<>>]

\* json.Marshal of FileReferences: every field is omitempty
MarshalRefs(refs) ==
    [k \in {o \in RefsKeys : refs[o] # None} |->
        IF k \in {"videoFile", "audioFile"} THEN MarshalRef(refs[k][1]) ELSE refs[k][1]]

UnmarshalRefs(j) ==
    [k \in RefsKeys |->
        IF k \notin DOMAIN j THEN None
        ELSE IF k \in {"videoFile", "audioFile"} THEN Some(UnmarshalRef(j[k]))
        ELSE Some(j[k])]

\* the zero value json.Unmarshal leaves in a field the document does not hold
ZeroOf(k) ==
    CASE k \in {"version", "id"} -> 0
      [] k = "sourceType" -> ""
      [] k = "completedSteps" -> NoStepsCompleted
      [] k = "fileReferences" -> NoFileReferences
      [] k = "settings" -> [transcription |-> <<>>, translation |-> <<>>, audio |-> <<>>, cleanup |-> <<>>]
      [] OTHER -> <<>>

\* json.MarshalIndent(project): the document saveProjectConfig writes
MarshalProject(p) ==
    [k \in ProjectRequired \cup {o \in ProjectOptional : p[o] # None} |->
        IF k \in ProjectOptional THEN p[k][1]
        ELSE IF k = "fileReferences" THEN MarshalRefs(p[k])
        ELSE p[k]]

\* json.Unmarshal(data, &project)
UnmarshalProject(j) ==
    [k \in ProjectRequired \cup ProjectOptional |->
        IF k \in ProjectOptional THEN (IF k \in DOMAIN j THEN Some(j[k]) ELSE None)
        ELSE IF k \notin DOMAIN j THEN ZeroOf(k)
        ELSE IF k = "fileReferences" THEN UnmarshalRefs(j[k])
        ELSE IF k = "completedSteps"
             THEN [s \in StepNames |-> IF s \in DOMAIN j[k] THEN j[k][s] ELSE FALSE]
        ELSE j[k]]

\* the folder of every project, AppSettings.DefaultProjectsPath
DefaultProjectsPath == <<"/", "D">>

\* the settings GetAppSettings returns while no settings.json exists
DefaultAppSettings ==
    [defaultProjectsPath |-> DefaultProjectsPath, autoCleanup |-> "auto",
     showOnboarding |-> TRUE, recentProjects |-> <<>>, exportLocation |-> "project-folder",
     customExportPath |-> None]

MarshalSettings(st) ==
    [k \in (DOMAIN st \ {"customExportPath"})
           \cup (IF st.customExportPath # None THEN {"customExportPath"} ELSE {}) |->
        IF k = "customExportPath" THEN st[k][1] ELSE st[k]]

UnmarshalSettings(j) ==
    [k \in DOMAIN DefaultAppSettings |->
        IF k = "customExportPath" THEN (IF k \in DOMAIN j THEN Some(j[k]) ELSE None)
        ELSE IF k \in DOMAIN j THEN j[k]
        ELSE IF k = "showOnboarding" THEN FALSE ELSE <<>>]

\* ------------------------------------------------------------------------
\* State
\* ------------------------------------------------------------------------

VARIABLES
    fs,            \* the projects folder: folder name -> [json, input]; json is the
                   \* project.json of the folder (None while it has none), input the
                   \* names of the files in its input/ subfolder
    settingsFile,  \* settings.json: None while the file does not exist
    extFiles,      \* the source files that exist outside the projects folder
    clock,         \* the wall clock, in seconds
    last,          \* the last call of the registry surface and what it returned
    inflight,      \* the bound calls that have started and not yet returned, by the
                   \* goroutine that runs them; used where calls overlap, and idle
                   \* wherever a call is taken as one step
    screen         \* the state of the stepwise pipeline screen of the interface

vars == <<fs, settingsFile, extFiles, clock, last, inflight, screen>>

\* Conventions.  A call runs as one step; time.Now() reads the same second
\* wherever the call reads it.  A call meets at most one I/O failure, named by
\* its fault argument, and a failed write leaves the file as it was.  A folder
\* is named by its path below the projects root: os.MkdirAll makes the folders
\* on the way, and a name with a "/" is a folder inside another one.

\* the values generateProjectID can return: hex.EncodeToString is one-to-one, so an
\* id is named by the number of the random value it encodes
Ids == 1..NumIds

\* the ids some document or the recent list holds
RECURSIVE SeqRange(_)
SeqRange(q) == IF q = <<>> THEN {} ELSE {Head(q)} \cup SeqRange(Tail(q))

StoredIds ==
    {fs[f].json[1].id : f \in {g \in DOMAIN fs : fs[g].json # None}}
        \cup (IF settingsFile = None THEN {} ELSE SeqRange(settingsFile[1].recentProjects))

\* A value the generator returns for the first time is named by the least id above
\* every stored one.
FreshIds ==
    LET above == {i \in Ids : \A j \in StoredIds : i > j}
    IN  IF above = {} THEN {} ELSE {CHOOSE i \in above : \A j \in above : i <= j}

ChoosableIds == StoredIds \cup FreshIds

\* a narrower choice: of the stored ids the generator repeats only the newest of
\* the recent list
NearIds ==
    LET recent == IF settingsFile = None THEN <<>> ELSE settingsFile[1].recentProjects
    IN  FreshIds \cup (IF recent = <<>> THEN {} ELSE {recent[1]})

\* A lookup treats alike all the ids no project.json carries: the ids a caller
\* looks up are the ids of the documents and the least id above them.
LookupIds ==
    LET docs  == {fs[f].json[1].id : f \in {g \in DOMAIN fs : fs[g].json # None}}
        above == {i \in Ids : \A j \in docs : i > j}
    IN  docs \cup (IF above = {} THEN {} ELSE {CHOOSE i \in above : \A j \in above : i <= j})

\* ------------------------------------------------------------------------
\* SettingsStore
\* ------------------------------------------------------------------------

\* the most ids addToRecentProjects keeps
RecentCap == 5

GetAppSettings(stf) ==
    IF stf = None THEN DefaultAppSettings ELSE UnmarshalSettings(stf[1])

SaveAppSettings(st) == Some(MarshalSettings(st))

\* append(s[:i], s[i+1:]...) at the first i with s[i] = x
RemoveFirst(s, x) ==
    LET hits == {i \in 1..Len(s) : s[i] = x}
    IN  IF hits = {} THEN s
        ELSE LET i == CHOOSE h \in hits : \A g \in hits : h <= g
             IN  SubSeq(s, 1, i - 1) \o SubSeq(s, i + 1, Len(s))

\* addToRecentProjects without the cut to the five newest
addUncapped(recent, projectID) == <<projectID>> \o RemoveFirst(recent, projectID)

\* addToRecentProjects with the id put behind the others
addAtBack(recent, projectID) ==
    LET added == RemoveFirst(recent, projectID) \o <<projectID>>
    IN  IF Len(added) > RecentCap THEN SubSeq(added, 1, RecentCap) ELSE added

\* the list addToRecentProjects saves
addToRecentProjects(recent, projectID) ==
    LET added == <<projectID>> \o RemoveFirst(recent, projectID)
    IN  IF Len(added) > RecentCap THEN SubSeq(added, 1, RecentCap) ELSE added

RecentProjects == GetAppSettings(settingsFile).recentProjects

\* ------------------------------------------------------------------------
\* ProjectRegistry
\* ------------------------------------------------------------------------

HasDoc(fsys, folder) == folder \in DOMAIN fsys /\ fsys[folder].json # None

\* the folders os.ReadDir lists for the projects root: its immediate subfolders
IsEntry(folder) == \A i \in DOMAIN folder : folder[i] # "/"

DocOf(fsys, folder) == UnmarshalProject(fsys[folder].json[1])

\* findProjectDirectory taking the first project.json whatever id it carries
findAnyDirectory(fsys, projectID) ==
    LET hits == {f \in DOMAIN fsys : IsEntry(f) /\ HasDoc(fsys, f)}
    IN  IF hits = {} THEN None
        ELSE Some(CHOOSE f \in hits : \A g \in hits \ {f} : StrLess(f, g))

\* the first folder, in the order of os.ReadDir, whose project.json carries the id
findProjectDirectory(fsys, projectID) ==
    LET hits == {f \in DOMAIN fsys :
                    IsEntry(f) /\ HasDoc(fsys, f) /\ DocOf(fsys, f).id = projectID}
    IN  IF hits = {} THEN None
        ELSE Some(CHOOSE f \in hits : \A g \in hits \ {f} : StrLess(f, g))

\* what LoadProject returns
LoadProject(fsys, projectID) ==
    LET dir == findProjectDirectory(fsys, projectID)
    IN  IF dir = None THEN [ok |-> FALSE, err |-> "project not found"]
        ELSE [ok |-> TRUE, project |-> DocOf(fsys, dir[1])]

\* saveProjectConfig: the folder with its project.json overwritten
saveProjectConfig(fsys, folder, project) ==
    [fsys EXCEPT ![folder].json = Some(MarshalProject(project))]

\* os.Stat of a source file: its size and modification time
StatSize(path) == Len(path)
StatModTime(path) == RFC3339(0)

LocalPrefix == <<"l", "o", "c", "a", "l", "_">>
YouTubeLabel == <<"Y", "o", "u", "T", "u", "b", "e", " ", "V", "i", "d", "e", "o", " ">>

\* the videoID of CreateProject's switch: the YouTube id, or local_<unix time>
VideoIdOf(sourceType, source, now) ==
    IF sourceType = "youtube" THEN extractVideoID(source) ELSE LocalPrefix \o Dec(now)

\* the displayName of CreateProject's switch
DisplayNameOf(sourceType, source, customName, videoID) ==
    IF customName # <<>> THEN customName
    ELSE IF sourceType = "youtube" THEN YouTubeLabel \o videoID
    ELSE TrimSuffix(Base(source), Ext(Base(source)))

\* the FileReference CreateProject makes for a local source
LinkedReference(source) ==
    [path |-> source, isLinked |-> TRUE, originalPath |-> Some(source),
     size |-> Some(StatSize(source)), lastModified |-> Some(StatModTime(source))]

\* SourceFields with the reference of a local source put in the other field
SourceFieldsSwapped(project, sourceType, source, videoID) ==
    IF sourceType = "youtube"
    THEN [project EXCEPT !.sourceUrl = Some(source), !.videoId = Some(videoID)]
    ELSE LET withName == [project EXCEPT !.originalFilename = Some(Base(source)),
                                         !.videoId = Some(videoID)]
         IN  IF sourceType = "video"
             THEN [withName EXCEPT !.fileReferences.audioFile = Some(LinkedReference(source))]
             ELSE [withName EXCEPT !.fileReferences.videoFile = Some(LinkedReference(source))]

\* the source-specific fields CreateProject sets on the new project
SourceFields(project, sourceType, source, videoID) ==
    IF sourceType = "youtube"
    THEN [project EXCEPT !.sourceUrl = Some(source), !.videoId = Some(videoID)]
    ELSE LET withName == [project EXCEPT !.originalFilename = Some(Base(source)),
                                         !.videoId = Some(videoID)]
         IN  IF sourceType = "video"
             THEN [withName EXCEPT !.fileReferences.videoFile = Some(LinkedReference(source))]
             ELSE [withName EXCEPT !.fileReferences.audioFile = Some(LinkedReference(source))]

\* the ProjectConfig CreateProject builds
NewProject(projectID, displayName, videoID, version, sourceType, source, targetLang, now) ==
    SourceFields(
        [id |-> projectID, name |-> displayName, created |-> RFC3339(now),
         lastModified |-> RFC3339(now), version |-> version, sourceType |-> sourceType,
         sourceUrl |-> None, videoId |-> None, originalFilename |-> None,
         targetLanguage |-> targetLang, completedSteps |-> NoStepsCompleted,
         fileReferences |-> NoFileReferences, settings |-> DefaultProjectSettings,
         textRules |-> <<>>, segmentRules |-> <<>>],
        sourceType, source, videoID)

\* SourceAccepted without the os.Stat of a local source
SourceUnchecked(sourceType, source, files) ==
    \/ sourceType = "youtube" /\ extractVideoID(source) # <<>>
    \/ sourceType \in {"video", "audio"}

\* whether CreateProject's switch accepts the source
SourceAccepted(sourceType, source, files) ==
    \/ sourceType = "youtube" /\ extractVideoID(source) # <<>>
    \/ sourceType \in {"video", "audio"} /\ source \in files

\* the I/O failures a call of CreateProject can meet, at most one a call
CreateFaults ==
    {"none", "rand", "settingsRead", "mkdirRoot", "mkdirProject", "mkdirSub",
     "saveConfig", "recentRead", "recentWrite"}

\* the settings document after CreateProject's and nothing else's addToRecentProjects
RecentAdded(stf, projectID) ==
    SaveAppSettings([GetAppSettings(stf) EXCEPT
                        !.recentProjects = addToRecentProjects(@, projectID)])

CreateProject(sourceType, source, targetLang, customName, rnd, fault) ==
    LET videoID     == VideoIdOf(sourceType, source, clock)
        displayName == DisplayNameOf(sourceType, source, customName, videoID)
        baseName    == FolderBase(displayName, videoID, targetLang)
        resolved    == resolveProjectNameClash(DOMAIN fs, baseName)
        project     == NewProject(rnd, displayName, videoID, resolved.version,
                                  sourceType, source, targetLang, clock)
        call        == [op |-> "create", sourceType |-> sourceType, source |-> source,
                        targetLang |-> targetLang, customName |-> customName]
        failed      == [call |-> call, ok |-> FALSE]
    IN  /\ IF \/ fault \in {"rand", "settingsRead", "mkdirRoot", "mkdirProject"}
              \/ ~SourceAccepted(sourceType, source, extFiles)
           THEN /\ last' = failed
                /\ UNCHANGED <<fs, settingsFile>>
           ELSE /\ IF fault \in {"mkdirSub", "saveConfig"}
                   THEN /\ fs' = (resolved.name :> [json |-> None, input |-> {}]) @@ fs
                        /\ last' = failed
                        /\ UNCHANGED settingsFile
                   ELSE /\ fs' = (resolved.name :> [json |-> Some(MarshalProject(project)),
                                                    input |-> {}]) @@ fs
                        /\ settingsFile' = IF fault \in {"recentRead", "recentWrite"}
                                           THEN settingsFile
                                           ELSE RecentAdded(settingsFile, rnd)
                        /\ last' = [call |-> call, ok |-> TRUE, project |-> project,
                                    folder |-> resolved.name, baseName |-> baseName,
                                    recentSaved |-> fault = "none",
                                    recentWas |-> RecentProjects]
        /\ UNCHANGED <<extFiles, clock>>

\* the failures of the scan for a folder and of the write of a document
LoadFaults == {"none", "findSettings"}
UpdateFaults == {"none", "findSettings", "saveConfig"}

LoadProjectCall(projectID, fault) ==
    LET res == LoadProject(fs, projectID)
    IN  /\ last' = IF fault = "none" /\ res.ok
                   THEN [call |-> [op |-> "load", id |-> projectID], ok |-> TRUE,
                         project |-> res.project]
                   ELSE [call |-> [op |-> "load", id |-> projectID], ok |-> FALSE,
                         err |-> "project not found"]
        /\ UNCHANGED <<fs, settingsFile, extFiles, clock>>

\* UpdateResult without the stamp of the current time
UpdateUnstamped(fsys, project, now, fault) ==
    LET dir == findProjectDirectory(fsys, project.id)
    IN  IF fault = "findSettings" \/ dir = None
        THEN [ok |-> FALSE, fs |-> fsys, project |-> project]
        ELSE IF fault = "saveConfig"
        THEN [ok |-> FALSE, fs |-> fsys, project |-> project]
        ELSE [ok |-> TRUE, fs |-> saveProjectConfig(fsys, dir[1], project),
              project |-> project]

\* what UpdateProject does to the projects folder: [ok, fs, project]
UpdateResult(fsys, project, now, fault) ==
    LET dir     == findProjectDirectory(fsys, project.id)
        stamped == [project EXCEPT !.lastModified = RFC3339(now)]
    IN  IF fault = "findSettings" \/ dir = None
        THEN [ok |-> FALSE, fs |-> fsys, project |-> project]
        ELSE IF fault = "saveConfig"
        THEN [ok |-> FALSE, fs |-> fsys, project |-> stamped]
        ELSE [ok |-> TRUE, fs |-> saveProjectConfig(fsys, dir[1], stamped),
              project |-> stamped]

UpdateProject(project, fault) ==
    LET res == UpdateResult(fs, project, clock, fault)
    IN  /\ fs' = res.fs
        /\ last' = [call |-> [op |-> "update", id |-> project.id], ok |-> res.ok]
        /\ UNCHANGED <<settingsFile, extFiles, clock>>

\* LoadEach giving up at the first id that fails to load
RECURSIVE LoadUntilFailure(_, _)
LoadUntilFailure(fsys, ids) ==
    IF ids = <<>> THEN <<>>
    ELSE LET res == LoadProject(fsys, Head(ids))
         IN  IF res.ok THEN <<res.project>> \o LoadUntilFailure(fsys, Tail(ids)) ELSE <<>>

\* the projects GetRecentProjects returns: the loadable ones, in the list's order
RECURSIVE LoadEach(_, _)
LoadEach(fsys, ids) ==
    IF ids = <<>> THEN <<>>
    ELSE LET res == LoadProject(fsys, Head(ids))
         IN  (IF res.ok THEN <<res.project>> ELSE <<>>) \o LoadEach(fsys, Tail(ids))

GetRecentProjects(fault) ==
    /\ last' = IF fault = "none"
               THEN [call |-> [op |-> "listRecent"], ok |-> TRUE,
                     projects |-> LoadEach(fs, RecentProjects)]
               ELSE [call |-> [op |-> "listRecent"], ok |-> FALSE]
    /\ UNCHANGED <<fs, settingsFile, extFiles, clock>>

\* the failures DeleteProject can meet: the settings read of the scan, the settings
\* read and write of the recent list, and os.RemoveAll
DeleteFaults == {"none", "findSettings", "settingsRead", "settingsWrite", "removeAll"}

\* the failures of reading or writing the settings document that DeleteProject can meet
SettingsFaults == {"findSettings", "settingsRead", "settingsWrite"}

\* DeleteProject returning at any failure of the settings document
DeleteAborting(projectID, fault) ==
    LET dir == findProjectDirectory(fs, projectID)
        st  == GetAppSettings(settingsFile)
    IN  /\ IF fault \in SettingsFaults \/ dir = None
           THEN /\ last' = [call |-> [op |-> "delete", id |-> projectID], ok |-> FALSE]
                /\ UNCHANGED <<fs, settingsFile>>
           ELSE /\ settingsFile' = SaveAppSettings([st EXCEPT !.recentProjects =
                                                       RemoveFirst(@, projectID)])
                /\ fs' = IF fault = "removeAll" THEN fs
                         ELSE [f \in DOMAIN fs \ {dir[1]} |-> fs[f]]
                /\ last' = [call |-> [op |-> "delete", id |-> projectID],
                            ok |-> fault # "removeAll"]
        /\ UNCHANGED <<extFiles, clock>>

DeleteProject(projectID, fault) ==
    LET dir == findProjectDirectory(fs, projectID)
        st  == GetAppSettings(settingsFile)
    IN  /\ IF fault = "findSettings" \/ dir = None
           THEN /\ last' = [call |-> [op |-> "delete", id |-> projectID], ok |-> FALSE]
                /\ UNCHANGED <<fs, settingsFile>>
           ELSE /\ settingsFile' =
                      IF fault \in {"settingsRead", "settingsWrite"} THEN settingsFile
                      ELSE SaveAppSettings([st EXCEPT !.recentProjects =
                                                RemoveFirst(@, projectID)])
                /\ fs' = IF fault = "removeAll" THEN fs
                         ELSE [f \in DOMAIN fs \ {dir[1]} |-> fs[f]]
                /\ last' = [call |-> [op |-> "delete", id |-> projectID],
                            ok |-> fault # "removeAll"]
        /\ UNCHANGED <<extFiles, clock>>

\* ------------------------------------------------------------------------
\* FileReferenceManager
\* ------------------------------------------------------------------------

InputDir == <<"i", "n", "p", "u", "t">>

\* how the copy of one file ends: done, or failed at os.Open, os.Create or io.Copy
CopyOutcomes == {"ok", "open", "create", "copy"}

\* copyFileToProject with the reference rewritten before the bytes are copied
copyFileEager(subdir, fileRef, io, files) ==
    LET moved == [fileRef EXCEPT !.originalPath = Some(Join(subdir, Base(fileRef.path))),
                                 !.path = Join(subdir, Base(fileRef.path)),
                                 !.isLinked = FALSE]
    IN  IF ~fileRef.isLinked THEN [ok |-> TRUE, ref |-> fileRef, wrote |-> {}]
        ELSE IF fileRef.path \notin files \/ io = "open"
        THEN [ok |-> FALSE, ref |-> fileRef, wrote |-> {}]
        ELSE IF io = "create" THEN [ok |-> FALSE, ref |-> fileRef, wrote |-> {}]
        ELSE [ok |-> io # "copy", ref |-> moved, wrote |-> {Base(fileRef.path)}]

\* copyFileToProject without the return for a reference that is no longer linked
copyFileUnguarded(subdir, fileRef, io, files) ==
    IF fileRef.path \notin files \/ io = "open"
    THEN [ok |-> FALSE, ref |-> fileRef, wrote |-> {}]
    ELSE IF io = "create" THEN [ok |-> FALSE, ref |-> fileRef, wrote |-> {}]
    ELSE IF io = "copy" THEN [ok |-> FALSE, ref |-> fileRef, wrote |-> {Base(fileRef.path)}]
    ELSE [ok |-> TRUE,
          ref |-> [fileRef EXCEPT !.originalPath = Some(Join(subdir, Base(fileRef.path))),
                                  !.path = Join(subdir, Base(fileRef.path)),
                                  !.isLinked = FALSE],
          wrote |-> {Base(fileRef.path)}]

\* fileRef.OriginalPath = &fileRef.Path points at the field, so that after
\* fileRef.Path = relativePath the original path reads as the relative one.
\* copyFileToProject on fileRef: [ok, ref, wrote]; ref is the reference after the
\* call and wrote the names of the files the call left in the subfolder
copyFileToProject(subdir, fileRef, io, files) ==
    IF ~fileRef.isLinked THEN [ok |-> TRUE, ref |-> fileRef, wrote |-> {}]
    ELSE IF fileRef.path \notin files \/ io = "open"
    THEN [ok |-> FALSE, ref |-> fileRef, wrote |-> {}]
    ELSE IF io = "create" THEN [ok |-> FALSE, ref |-> fileRef, wrote |-> {}]
    ELSE IF io = "copy" THEN [ok |-> FALSE, ref |-> fileRef, wrote |-> {Base(fileRef.path)}]
    ELSE [ok |-> TRUE,
          ref |-> [fileRef EXCEPT !.originalPath = Some(Join(subdir, Base(fileRef.path))),
                                  !.path = Join(subdir, Base(fileRef.path)),
                                  !.isLinked = FALSE],
          wrote |-> {Base(fileRef.path)}]

\* IsLinkedRef taking every populated reference for a linked one
IsPopulatedRef(optRef) == optRef # None

IsLinkedRef(optRef) == optRef # None /\ optRef[1].isLinked

CopyLinkedFilesToProject(projectID, videoIo, audioIo, fault) ==
    LET loaded   == LoadProject(fs, projectID)
        dir      == findProjectDirectory(fs, projectID)
        p0       == loaded.project
        vCall    == IsLinkedRef(p0.fileReferences.videoFile)
        vRes     == copyFileToProject(InputDir, p0.fileReferences.videoFile[1], videoIo, extFiles)
        vFailed  == vCall /\ ~vRes.ok
        p1       == IF vCall /\ vRes.ok
                    THEN [p0 EXCEPT !.fileReferences.videoFile = Some(vRes.ref)] ELSE p0
        aCall    == ~vFailed /\ IsLinkedRef(p1.fileReferences.audioFile)
        aRes     == copyFileToProject(InputDir, p1.fileReferences.audioFile[1], audioIo, extFiles)
        aFailed  == aCall /\ ~aRes.ok
        p2       == IF aCall /\ aRes.ok
                    THEN [p1 EXCEPT !.fileReferences.audioFile = Some(aRes.ref)] ELSE p1
        updated  == (vCall /\ vRes.ok) \/ (aCall /\ aRes.ok)
        wrote    == (IF vCall THEN vRes.wrote ELSE {}) \cup (IF aCall THEN aRes.wrote ELSE {})
        copied   == [fs EXCEPT ![dir[1]].input = @ \cup wrote]
        saved    == UpdateResult(copied, p2, clock, fault)
        calls    == (IF vCall THEN <<[field |-> "videoFile", ok |-> vRes.ok,
                                      before |-> p0.fileReferences.videoFile[1],
                                      after |-> vRes.ref]>> ELSE <<>>)
                    \o (IF aCall THEN <<[field |-> "audioFile", ok |-> aRes.ok,
                                         before |-> p1.fileReferences.audioFile[1],
                                         after |-> aRes.ref]>> ELSE <<>>)
        call     == [op |-> "copyLinked", id |-> projectID]
    IN  /\ IF fault = "findSettings" \/ ~loaded.ok
           THEN /\ last' = [call |-> call, ok |-> FALSE, calls |-> <<>>]
                /\ UNCHANGED fs
           ELSE IF vFailed \/ aFailed
           THEN /\ fs' = copied
                /\ last' = [call |-> call, ok |-> FALSE, calls |-> calls, project |-> p2]
           ELSE IF updated
           THEN /\ fs' = saved.fs
                /\ last' = [call |-> call, ok |-> saved.ok, calls |-> calls,
                            project |-> saved.project]
           ELSE /\ fs' = fs
                /\ last' = [call |-> call, ok |-> TRUE, calls |-> calls, project |-> p2]
        /\ UNCHANGED <<settingsFile, extFiles, clock>>

\* ------------------------------------------------------------------------
\* PipelineOrchestrator and the step executor
\* ------------------------------------------------------------------------

\* What one run of the step executor can do: its exit code, the result document on
\* its output (None when the output does not parse as JSON) and the completion flag
\* it stores in project.json (None when it stores nothing).
OutSuccess  == [exit |-> 0, stdout |-> Some([success |-> TRUE, message |-> "done"]),
                mark |-> Some(TRUE)]
OutFailure  == [exit |-> 1, stdout |-> Some([success |-> FALSE, error |-> "step failed",
                                             message |-> "failed"]),
                mark |-> Some(FALSE)]
OutCrash    == [exit |-> 1, stdout |-> Some([success |-> FALSE, error |-> "pipeline failed",
                                             message |-> "failed"]),
                mark |-> None]
OutNoisy    == [exit |-> 0, stdout |-> None, mark |-> Some(TRUE)]
OutSoftFail == [exit |-> 0, stdout |-> Some([success |-> FALSE, error |-> "step failed"]),
                mark |-> Some(FALSE)]
OutSilentFail == [exit |-> 0, stdout |-> Some([success |-> FALSE]), mark |-> None]
OutNoField  == [exit |-> 0, stdout |-> Some([message |-> "done"]), mark |-> None]
OutLateCrash == [exit |-> 1, stdout |-> Some([success |-> TRUE, message |-> "done"]),
                 mark |-> Some(TRUE)]

Outcomes ==
    {OutSuccess, OutFailure, OutCrash, OutNoisy, OutSoftFail, OutSilentFail, OutNoField,
     OutLateCrash}

\* The executor's process is killed before it prints anything: in the middle of
\* the step, or after update_step_completion has stored the flag.
OutKilledEarly == [exit |-> 1, stdout |-> None, mark |-> None]
OutKilledLate  == [exit |-> 1, stdout |-> None, mark |-> Some(TRUE)]

Crashes == {OutKilledEarly, OutKilledLate}

Mp4 == <<".", "m", "p", "4">>
SegmentsPath(vid) ==
    <<"t", "r", "a", "n", "s", "c", "r", "i", "p", "t", "s", "/">> \o vid
        \o <<"_", "s", "e", "g", "m", "e", "n", "t", "s", ".", "j", "s", "o", "n">>
FinalAudioPath(vid) ==
    <<"a", "u", "d", "i", "o", "/">> \o vid
        \o <<"_", "d", "u", "b", "b", "e", "d", ".", "m", "p", "3">>
FinalVideoPath(vid) ==
    <<"o", "u", "t", "p", "u", "t", "/">> \o vid \o <<"_", "f", "i", "n", "a", "l">> \o Mp4

\* the file references a successful step stores in project.json
StepArtifacts(j, step) ==
    LET vid  == IF "videoId" \in DOMAIN j THEN j.videoId ELSE <<"u", "n", "k", "n", "o", "w", "n">>
        refs == j.fileReferences
    IN  IF step = "download" /\ j.sourceType = "youtube"
        THEN ("videoFile" :> [path |-> Join(InputDir, vid \o Mp4), isLinked |-> FALSE,
                              size |-> 1, lastModified |-> IsoFormat(0)]) @@ refs
        ELSE IF step = "transcribe" THEN ("segmentsFile" :> SegmentsPath(vid)) @@ refs
        ELSE IF step = "combine"
        THEN ("finalAudio" :> FinalAudioPath(vid)) @@ ("finalVideo" :> FinalVideoPath(vid)) @@ refs
        ELSE refs

\* ExecutorEffect storing the artifacts of a step but never its flag
ExecutorForgetsFlag(j, step, outcome, now) ==
    IF outcome.mark = None THEN j
    ELSE [j EXCEPT !.lastModified = IsoFormat(now),
                   !.fileReferences = IF outcome.mark[1] THEN StepArtifacts(j, step) ELSE @]

\* ExecutorEffect storing nothing when the step failed
ExecutorKeepsOnFailure(j, step, outcome, now) ==
    IF outcome.mark = None \/ outcome.mark = Some(FALSE) THEN j
    ELSE [j EXCEPT !.completedSteps = (step :> TRUE) @@ @,
                   !.lastModified = IsoFormat(now),
                   !.fileReferences = StepArtifacts(j, step)]

\* ExecutorEffect storing the flag true whatever the step's end
ExecutorMarksDone(j, step, outcome, now) ==
    IF outcome.mark = None THEN j
    ELSE [j EXCEPT !.completedSteps = (step :> TRUE) @@ @,
                   !.lastModified = IsoFormat(now),
                   !.fileReferences = IF outcome.mark[1] THEN StepArtifacts(j, step) ELSE @]

\* update_step_completion: the project.json the executor leaves
ExecutorEffect(j, step, outcome, now) ==
    IF outcome.mark = None THEN j
    ELSE [j EXCEPT !.completedSteps = (step :> outcome.mark[1]) @@ @,
                   !.lastModified = IsoFormat(now),
                   !.fileReferences = IF outcome.mark[1] THEN StepArtifacts(j, step) ELSE @]

\* RunPipelineStep storing the start of the run: it clears the flag of the step
\* before it starts the executor
RunPipelineStepMarking(fsys, projectID, step, outcome, now) ==
    LET dir     == findProjectDirectory(fsys, projectID)
        started == [fsys EXCEPT ![dir[1]].json =
                        Some([@[1] EXCEPT !.completedSteps = (step :> FALSE) @@ @])]
        ran     == [started EXCEPT ![dir[1]].json =
                        Some(ExecutorEffect(@[1], step, outcome, now))]
    IN  IF dir = None THEN [err |-> TRUE, result |-> None, fs |-> fsys]
        ELSE IF outcome.exit # 0 THEN [err |-> TRUE, result |-> None, fs |-> ran]
        ELSE IF outcome.stdout = None THEN [err |-> TRUE, result |-> None, fs |-> ran]
        ELSE [err |-> FALSE, result |-> outcome.stdout, fs |-> ran]

\* RunPipelineStep rejecting a document whose success field is missing or
\* disagrees with the exit code
RunPipelineStepStrict(fsys, projectID, step, outcome, now) ==
    LET dir == findProjectDirectory(fsys, projectID)
        ran == [fsys EXCEPT ![dir[1]].json = Some(ExecutorEffect(@[1], step, outcome, now))]
    IN  IF dir = None THEN [err |-> TRUE, result |-> None, fs |-> fsys]
        ELSE IF outcome.exit # 0 THEN [err |-> TRUE, result |-> None, fs |-> ran]
        ELSE IF outcome.stdout = None THEN [err |-> TRUE, result |-> None, fs |-> ran]
        ELSE IF "success" \notin DOMAIN outcome.stdout[1] THEN
            [err |-> TRUE, result |-> None, fs |-> ran]
        ELSE IF ~outcome.stdout[1].success THEN [err |-> TRUE, result |-> None, fs |-> ran]
        ELSE [err |-> FALSE, result |-> outcome.stdout, fs |-> ran]

\* RunPipelineStep refusing a step whose predecessor is not completed or that is
\* completed itself
RunPipelineStepOrdered(fsys, projectID, step, outcome, now) ==
    LET dir   == findProjectDirectory(fsys, projectID)
        ran   == [fsys EXCEPT ![dir[1]].json = Some(ExecutorEffect(@[1], step, outcome, now))]
        i     == CHOOSE k \in 1..Len(Steps) : Steps[k] = step
        flags == DocOf(fsys, dir[1]).completedSteps
    IN  IF dir = None THEN [err |-> TRUE, result |-> None, fs |-> fsys]
        ELSE IF flags[step] \/ (i > 1 /\ ~flags[Steps[i - 1]])
        THEN [err |-> TRUE, result |-> None, fs |-> fsys]
        ELSE IF outcome.exit # 0 THEN [err |-> TRUE, result |-> None, fs |-> ran]
        ELSE IF outcome.stdout = None THEN [err |-> TRUE, result |-> None, fs |-> ran]
        ELSE [err |-> FALSE, result |-> outcome.stdout, fs |-> ran]

\* RunPipelineStep: [err, result, fs]; err is a Go error, result the parsed output
RunPipelineStep(fsys, projectID, step, outcome, now) ==
    LET dir == findProjectDirectory(fsys, projectID)
        ran == [fsys EXCEPT ![dir[1]].json = Some(ExecutorEffect(@[1], step, outcome, now))]
    IN  IF dir = None THEN [err |-> TRUE, result |-> None, fs |-> fsys]
        ELSE IF outcome.exit # 0 THEN [err |-> TRUE, result |-> None, fs |-> ran]
        ELSE IF outcome.stdout = None THEN [err |-> TRUE, result |-> None, fs |-> ran]
        ELSE [err |-> FALSE, result |-> outcome.stdout, fs |-> ran]

\* ReportsSuccess with every parsed result taken for a success
ReportsAnything(stepResult) == TRUE

\* stepResult["success"].(bool) holds and is true
ReportsSuccess(stepResult) == "success" \in DOMAIN stepResult /\ stepResult.success

\* RunFullLoop without the return at the failed step
RECURSIVE RunFullLoopOn(_, _, _, _, _, _, _)
RunFullLoopOn(fsys, projectID, i, outs, stepResults, log, now) ==
    IF i > Len(Steps)
    THEN [fs |-> fsys, err |-> FALSE, log |-> log,
          results |-> [steps |-> stepResults, success |-> TRUE, message |-> "completed"]]
    ELSE LET r    == RunPipelineStep(fsys, projectID, Steps[i], outs[i], now)
             log2 == Append(log, [step |-> Steps[i], err |-> r.err, result |-> r.result])
             sr2  == IF r.err THEN stepResults ELSE (Steps[i] :> r.result[1]) @@ stepResults
         IN  RunFullLoopOn(r.fs, projectID, i + 1, outs, sr2, log2, now)

\* the loop of RunFullPipeline from step i on: [fs, err, results, log]; log lists
\* the calls of RunPipelineStep in the order they were made
RECURSIVE RunFullLoop(_, _, _, _, _, _, _)
RunFullLoop(fsys, projectID, i, outs, stepResults, log, now) ==
    IF i > Len(Steps)
    THEN [fs |-> fsys, err |-> FALSE, log |-> log,
          results |-> [steps |-> stepResults, success |-> TRUE, message |-> "completed"]]
    ELSE LET r    == RunPipelineStep(fsys, projectID, Steps[i], outs[i], now)
             log2 == Append(log, [step |-> Steps[i], err |-> r.err, result |-> r.result])
         IN  IF r.err
             THEN [fs |-> r.fs, err |-> TRUE, log |-> log2,
                   results |-> [steps |-> stepResults, success |-> FALSE,
                                error |-> "pipeline step failed", failedStep |-> Steps[i]]]
             ELSE LET sr2 == (Steps[i] :> r.result[1]) @@ stepResults
                  IN  IF ~ReportsSuccess(r.result[1])
                      THEN [fs |-> r.fs, err |-> TRUE, log |-> log2,
                            results |->
                                (IF "error" \in DOMAIN r.result[1]
                                 THEN [error |-> r.result[1].error] ELSE [x \in {} |-> x])
                                @@ [steps |-> sr2, success |-> FALSE, failedStep |-> Steps[i]]]
                      ELSE RunFullLoop(r.fs, projectID, i + 1, outs, sr2, log2, now)

RunPipelineStepCall(projectID, step, outcome) ==
    LET r == RunPipelineStep(fs, projectID, step, outcome, clock)
    IN  /\ fs' = r.fs
        /\ last' = [call |-> [op |-> "runStep", id |-> projectID, step |-> step],
                    ok |-> ~r.err, result |-> r.result]
        /\ UNCHANGED <<settingsFile, extFiles, clock>>

RunFullPipeline(projectID, outs) ==
    LET r == RunFullLoop(fs, projectID, 1, outs, [x \in {} |-> x], <<>>, clock)
    IN  /\ fs' = r.fs
        /\ last' = [call |-> [op |-> "runFull", id |-> projectID], ok |-> ~r.err,
                    results |-> r.results, log |-> r.log]
        /\ UNCHANGED <<settingsFile, extFiles, clock>>

\* ------------------------------------------------------------------------
\* Environment
\* ------------------------------------------------------------------------

Tick ==
    /\ clock < MaxClock
    /\ clock' = clock + 1
    /\ last' = [call |-> [op |-> "tick"], ok |-> TRUE]
    /\ UNCHANGED <<fs, settingsFile, extFiles, inflight, screen>>

\* the user moves or deletes a source file outside the application
RemoveSource(path) ==
    /\ path \in extFiles
    /\ extFiles' = extFiles \ {path}
    /\ last' = [call |-> [op |-> "removeSource"], ok |-> TRUE]
    /\ UNCHANGED <<fs, settingsFile, clock, inflight, screen>>

\* ------------------------------------------------------------------------
\* The calls of the user interface
\* ------------------------------------------------------------------------

\* a bare YouTube id, a youtu.be link to it, and a string that is neither
BareId == <<"a", "b", "c", "d", "e", "h", "i", "l", "m", "n", "o">>
ShortUrl == ShortMarker \o BareId
NoUrl == <<"n", "o">>

\* the youtu.be link as a browser may show it, with a "/" after the id
SlashUrl == ShortUrl \o <<"/">>

\* the local source files of the model
VideoPath == <<"/", "s", "/", "v", ".", "m", "p", "4">>
AudioPath == <<"/", "s", "/", "a", ".", "m", "p", "3">>
SourcePaths == {VideoPath, AudioPath}

Lang == <<"e", "s">>

\* the customName argument left empty, and the name a project is renamed to
NoName == <<>>
PlainName == <<"d", "e", "m", "o">>

\* the <<sourceType, source>> pairs of CreateProject
YouTubeInputs == {<<"youtube", BareId>>, <<"youtube", ShortUrl>>}
LocalInputs == {<<"video", VideoPath>>, <<"audio", AudioPath>>}
BadInputs == {<<"youtube", NoUrl>>}

\* the id of a project the interface still holds after its folder has gone
GoneId == 0

\* what the interface changes in a project before it calls UpdateProject; "gone"
\* stands for a project whose folder has been deleted in the meantime, "stale" for
\* the copy the interface keeps, with the download done, when a later run of the
\* step throws and the project is not reloaded
Edited(project, edit) ==
    IF edit = "rename" THEN [project EXCEPT !.name = PlainName]
    ELSE IF edit = "gone" THEN [project EXCEPT !.id = GoneId]
    ELSE IF edit = "stale" THEN [project EXCEPT !.completedSteps.download = TRUE]
    ELSE [project EXCEPT !.fileReferences.audioFile = Some(LinkedReference(AudioPath))]

\* the projects the interface may pass to UpdateProject
UpdateInputs(edits) ==
    {Edited(DocOf(fs, f), e) : f \in {g \in DOMAIN fs : HasDoc(fs, g)}, e \in edits}

\* the executor's outcomes of a full run that fails at step k with outcome o
\* (k = Len(Steps) + 1: no step fails)
Scenario(k, o) == [i \in 1..Len(Steps) |-> IF i = k THEN o ELSE OutSuccess]

CreateAmong(inputs, names, faults, rnds, room) ==
    \E in \in inputs, n \in names, rnd \in rnds, fault \in faults :
        /\ Cardinality(DOMAIN fs) < room
        /\ CreateProject(in[1], in[2], Lang, n, rnd, fault)
        /\ UNCHANGED <<inflight, screen>>

LoadAmong(faults) ==
    \E id \in LookupIds, fault \in faults :
        LoadProjectCall(id, fault) /\ UNCHANGED <<inflight, screen>>

UpdateAmong(edits, faults) ==
    \E project \in UpdateInputs(edits), fault \in faults :
        UpdateProject(project, fault) /\ UNCHANGED <<inflight, screen>>

ListAmong(faults) ==
    \E fault \in faults : GetRecentProjects(fault) /\ UNCHANGED <<inflight, screen>>

DeleteAmong(faults) ==
    \E id \in LookupIds, fault \in faults :
        DeleteProject(id, fault) /\ UNCHANGED <<inflight, screen>>

\* the <<videoIo, audioIo, fault>> of a call in which at most one operation fails
CopyRuns(ios, faults) ==
    {<<v, "ok", "none">> : v \in ios} \cup {<<"ok", a, "none">> : a \in ios}
        \cup {<<"ok", "ok", f>> : f \in faults}

CopyAmong(ios, faults) ==
    \E id \in LookupIds, run \in CopyRuns(ios, faults) :
        CopyLinkedFilesToProject(id, run[1], run[2], run[3]) /\ UNCHANGED <<inflight, screen>>

StepAmong(steps, outcomes) ==
    \E id \in LookupIds, s \in steps, o \in outcomes :
        RunPipelineStepCall(id, s, o) /\ UNCHANGED <<inflight, screen>>

FullAmong(ks, outcomes) ==
    \E id \in LookupIds, k \in ks, o \in outcomes :
        RunFullPipeline(id, Scenario(k, o)) /\ UNCHANGED <<inflight, screen>>

SourceRemoved == \E p \in SourcePaths : RemoveSource(p)

NoCall == [call |-> [op |-> "start"], ok |-> TRUE]

\* the screen as it is mounted: the full mode, no input, nothing completed,
\* nothing processing; pending are the calls of onRunStep not yet settled
FreshScreen ==
    [mode |-> "full", hasInput |-> FALSE, completedSteps |-> {}, isProcessing |-> FALSE,
     pending |-> <<>>]

\* the length of a time stamp in the layout time.RFC3339
RFC3339Len == 25

\* the goroutines that serve the calls of the interface, and one that serves none
MaxCalls == 2
Goroutines == 1..MaxCalls
Idle ==
    [op |-> "idle", id |-> 0, step |-> "", dir |-> <<>>, doc |-> <<>>, phase |-> "",
     version |-> 0]

\* the turns of the clash loop the model follows
MaxAttempts == 3

\* ------------------------------------------------------------------------
\* Calls that overlap.  Every call of a bound method runs on a goroutine of its
\* own and App holds no lock, so that a second call may start while the first
\* waits for the executor or is between two system calls
\* ------------------------------------------------------------------------

\* RunPipelineStep up to cmd.CombinedOutput(): the executor has been started and
\* has read the project.json of the folder
BeginStep(g, projectID, step) ==
    LET dir  == findProjectDirectory(fs, projectID)
        call == [op |-> "runStep", id |-> projectID, step |-> step]
    IN  /\ inflight[g] = Idle
        /\ IF dir = None
           THEN /\ last' = [call |-> call, ok |-> FALSE, result |-> None]
                /\ UNCHANGED inflight
           ELSE /\ inflight' = [inflight EXCEPT ![g] =
                                   [op |-> "runStep", id |-> projectID, step |-> step,
                                    dir |-> dir[1], doc |-> fs[dir[1]].json[1],
                                    phase |-> "executor", version |-> 0]]
                /\ UNCHANGED last
        /\ UNCHANGED <<fs, settingsFile, extFiles, clock, screen>>

\* the executor of goroutine g ends with the outcome: it stores the document it
\* read at its start with the flag of its step, and RunPipelineStep returns
EndStep(g, outcome) ==
    LET c == inflight[g]
    IN  /\ c.op = "runStep"
        /\ fs' = IF c.dir \in DOMAIN fs /\ outcome.mark # None
                 THEN [fs EXCEPT ![c.dir].json =
                          Some(ExecutorEffect(c.doc, c.step, outcome, clock))]
                 ELSE fs
        /\ last' = [call |-> [op |-> "runStep", id |-> c.id, step |-> c.step],
                    ok |-> outcome.exit = 0 /\ outcome.stdout # None,
                    result |-> IF outcome.exit = 0 THEN outcome.stdout ELSE None]
        /\ inflight' = [inflight EXCEPT ![g] = Idle]
        /\ UNCHANGED <<settingsFile, extFiles, clock, screen>>

\* ------------------------------------------------------------------------
\* The stepwise pipeline screen.  onRunStep and onRunPipeline are props of the
\* screen: a call of them is pending until it resolves or rejects
\* ------------------------------------------------------------------------

ExtractStep == "extract-background-audio"

\* StepButton with every button enabled as soon as there is an input
canRunAny(stepKey) == screen.hasInput

\* the canRun of the StepButton of a step
canRun(stepKey) ==
    CASE stepKey = "download" -> screen.hasInput
      [] stepKey = "transcribe" -> "download" \in screen.completedSteps
      [] stepKey = "translate" -> "transcribe" \in screen.completedSteps
      [] stepKey = "synthesize" -> "translate" \in screen.completedSteps
      [] stepKey = ExtractStep -> "translate" \in screen.completedSteps
      [] stepKey = "combine" -> "synthesize" \in screen.completedSteps

\* the user fills in or clears the input, or switches the mode
EditScreen(mode, hasInput) ==
    /\ screen' = [screen EXCEPT !.mode = mode, !.hasInput = hasInput]
    /\ UNCHANGED <<fs, settingsFile, extFiles, clock, last, inflight>>

\* a click on the button of a step, which is rendered in the stepwise mode and
\* disabled unless canRun and not isProcessing: runStep up to its await
runStep(stepKey) ==
    /\ screen.mode = "stepwise"
    /\ canRun(stepKey) /\ ~screen.isProcessing
    /\ screen' = [screen EXCEPT !.isProcessing = TRUE, !.pending = Append(@, stepKey)]
    /\ UNCHANGED <<fs, settingsFile, extFiles, clock, last, inflight>>

\* a click on the button of the full mode: runFullPipeline up to its await
runFullPipeline ==
    /\ screen.mode = "full"
    /\ screen.hasInput /\ ~screen.isProcessing
    /\ screen' = [screen EXCEPT !.isProcessing = TRUE, !.pending = Append(@, "full")]
    /\ UNCHANGED <<fs, settingsFile, extFiles, clock, last, inflight>>

\* the pending call i resolves or rejects: runStep marks its step completed when
\* the call resolved, and both handlers end with setIsProcessing(false)
Settle(i, resolved) ==
    /\ i \in 1..Len(screen.pending)
    /\ screen' = [screen EXCEPT
                     !.completedSteps = IF resolved /\ screen.pending[i] # "full"
                                        THEN @ \cup {screen.pending[i]} ELSE @,
                     !.isProcessing = FALSE,
                     !.pending = SubSeq(@, 1, i - 1) \o SubSeq(@, i + 1, Len(@))]
    /\ UNCHANGED <<fs, settingsFile, extFiles, clock, last, inflight>>

\* the Reset Progress button of the stepwise mode, disabled while isProcessing
ResetProgress ==
    /\ screen.mode = "stepwise" /\ ~screen.isProcessing
    /\ screen' = [screen EXCEPT !.completedSteps = {}]
    /\ UNCHANGED <<fs, settingsFile, extFiles, clock, last, inflight>>

\* CreateProject up to the loop of resolveProjectNameClash, for a folder name
\* os.Stat refuses with an error other than "not exist" (a name longer than the
\* file system allows: the video id and the language are put into the name
\* uncut)
BeginCreate(g, sourceType, source, targetLang, customName) ==
    LET videoID     == VideoIdOf(sourceType, source, clock)
        displayName == DisplayNameOf(sourceType, source, customName, videoID)
    IN  /\ inflight[g] = Idle
        /\ SourceAccepted(sourceType, source, extFiles)
        /\ inflight' = [inflight EXCEPT ![g] =
                           [op |-> "create", id |-> 0, step |-> "",
                            dir |-> FolderBase(displayName, videoID, targetLang),
                            doc |-> <<>>, phase |-> "clash", version |-> 1]]
        /\ UNCHANGED <<fs, settingsFile, extFiles, clock, last, screen>>

\* one turn of the loop: os.Stat returns an error, os.IsNotExist(err) is false,
\* and the loop goes on to the next version; it has no other way out
ClashAttempt(g) ==
    /\ inflight[g].op = "create"
    /\ inflight[g].version < MaxAttempts
    /\ inflight' = [inflight EXCEPT ![g].version = @ + 1]
    /\ UNCHANGED <<fs, settingsFile, extFiles, clock, last, screen>>

\* the length of the text json.MarshalIndent makes of a document, as far as it
\* varies: the keys it holds, its strings, its booleans and its time stamps
\* (isoformat prints the microseconds, RFC3339 the zone)
EncodedLen(j) ==
    LET BoolLen(b) == IF b THEN Len(<<"t", "r", "u", "e">>) ELSE Len(<<"f", "a", "l", "s", "e">>)
        StampLen(t) == IF t = IsoFormat(t.sec) THEN RFC3339Len + 1 ELSE RFC3339Len
        RefLen(r) ==
            Cardinality(DOMAIN r) + Len(r.path) + BoolLen(r.isLinked)
                + (IF "originalPath" \in DOMAIN r THEN Len(r.originalPath) ELSE 0)
        PathLen(refs, k) ==
            IF k \notin DOMAIN refs THEN 0
            ELSE IF k \in {"videoFile", "audioFile"} THEN RefLen(refs[k]) ELSE Len(refs[k])
        done == {s \in StepNames : j.completedSteps[s]}
    IN  Cardinality(DOMAIN j) + Len(j.name) + StampLen(j.lastModified)
            + Cardinality(done) * BoolLen(TRUE)
            + Cardinality(StepNames \ done) * BoolLen(FALSE)
            + PathLen(j.fileReferences, "videoFile") + PathLen(j.fileReferences, "audioFile")
            + PathLen(j.fileReferences, "segmentsFile")
            + PathLen(j.fileReferences, "finalAudio")
            + PathLen(j.fileReferences, "finalVideo")

\* UpdateProject up to the call of os.WriteFile: the folder is found, the
\* project stamped and marshalled
BeginUpdate(g, project) ==
    LET dir     == findProjectDirectory(fs, project.id)
        stamped == [project EXCEPT !.lastModified = RFC3339(clock)]
    IN  /\ inflight[g] = Idle
        /\ IF dir = None
           THEN /\ last' = [call |-> [op |-> "update", id |-> project.id], ok |-> FALSE]
                /\ UNCHANGED inflight
           ELSE /\ inflight' = [inflight EXCEPT ![g] =
                                   [op |-> "update", id |-> project.id, step |-> "",
                                    dir |-> dir[1], doc |-> MarshalProject(stamped),
                                    phase |-> "marshalled", version |-> 0]]
                /\ UNCHANGED last
        /\ UNCHANGED <<fs, settingsFile, extFiles, clock, screen>>

\* os.WriteFile opens project.json with O_TRUNC: the file is empty
OpenFile(g) ==
    LET c == inflight[g]
    IN  /\ c.op = "update" /\ c.phase = "marshalled"
        /\ c.dir \in DOMAIN fs
        /\ fs' = [fs EXCEPT ![c.dir].json = None]
        /\ inflight' = [inflight EXCEPT ![g].phase = "opened"]
        /\ UNCHANGED <<settingsFile, extFiles, clock, last, screen>>

\* os.WriteFile writes the text at offset 0 and closes the file: a longer text
\* another call wrote since the file was opened keeps its tail, and the file no
\* longer parses
WriteFile(g) ==
    LET c   == inflight[g]
        cur == fs[c.dir].json
    IN  /\ c.op = "update" /\ c.phase = "opened"
        /\ c.dir \in DOMAIN fs
        /\ fs' = [fs EXCEPT ![c.dir].json =
                     IF cur = None \/ EncodedLen(cur[1]) <= EncodedLen(c.doc)
                     THEN Some(c.doc) ELSE None]
        /\ last' = [call |-> [op |-> "update", id |-> c.id], ok |-> TRUE,
                    dir |-> c.dir, project |-> UnmarshalProject(c.doc)]
        /\ inflight' = [inflight EXCEPT ![g] = Idle]
        /\ UNCHANGED <<settingsFile, extFiles, clock, screen>>

\* the value generateProjectID returns to a call that overlaps others: a new
\* one, named by the least id above every stored one and every one in flight
UnusedIds ==
    LET used  == StoredIds \cup {inflight[h].id : h \in Goroutines}
        above == {i \in Ids : \A j \in used : i > j}
    IN  IF above = {} THEN {} ELSE {CHOOSE i \in above : \A j \in above : i <= j}

\* CreateProject up to the return of resolveProjectNameClash: the id is drawn,
\* the source accepted and the folder name chosen against the folders there are
CreateResolve(g, sourceType, source, targetLang, customName, rnd) ==
    LET videoID     == VideoIdOf(sourceType, source, clock)
        displayName == DisplayNameOf(sourceType, source, customName, videoID)
        resolved    == resolveProjectNameClash(DOMAIN fs,
                                               FolderBase(displayName, videoID, targetLang))
        project     == NewProject(rnd, displayName, videoID, resolved.version,
                                  sourceType, source, targetLang, clock)
    IN  /\ inflight[g] = Idle
        /\ SourceAccepted(sourceType, source, extFiles)
        /\ inflight' = [inflight EXCEPT ![g] =
                           [op |-> "create", id |-> rnd, step |-> "",
                            dir |-> resolved.name, doc |-> MarshalProject(project),
                            phase |-> "resolved", version |-> resolved.version]]
        /\ UNCHANGED <<fs, settingsFile, extFiles, clock, last, screen>>

\* os.MkdirAll of the project folder, which succeeds on a folder that is there,
\* and saveProjectConfig, which writes project.json whether there is one or not
CreateSave(g) ==
    LET c == inflight[g]
    IN  /\ c.op = "create" /\ c.phase = "resolved"
        /\ fs' = IF c.dir \in DOMAIN fs THEN [fs EXCEPT ![c.dir].json = Some(c.doc)]
                 ELSE (c.dir :> [json |-> Some(c.doc), input |-> {}]) @@ fs
        /\ inflight' = [inflight EXCEPT ![g].phase = "saved"]
        /\ UNCHANGED <<settingsFile, extFiles, clock, last, screen>>

\* addToRecentProjects up to the return of GetAppSettings: the call holds the
\* settings as they are now
RecentRead(g) ==
    LET c == inflight[g]
    IN  /\ c.op = "create" /\ c.phase = "saved"
        /\ inflight' = [inflight EXCEPT ![g] =
                           [op |-> "create", id |-> c.id, step |-> "", dir |-> c.dir,
                            doc |-> c.doc, phase |-> "read", version |-> c.version,
                            settings |-> GetAppSettings(settingsFile)]]
        /\ UNCHANGED <<fs, settingsFile, extFiles, clock, last, screen>>

\* the rest of addToRecentProjects, on the settings the call holds, and the
\* return of CreateProject
RecentWrite(g) ==
    LET c == inflight[g]
    IN  /\ c.op = "create" /\ c.phase = "read"
        /\ settingsFile' = SaveAppSettings([c.settings EXCEPT !.recentProjects =
                                                addToRecentProjects(@, c.id)])
        /\ last' = [call |-> [op |-> "create"], ok |-> TRUE,
                    project |-> UnmarshalProject(c.doc), folder |-> c.dir]
        /\ inflight' = [inflight EXCEPT ![g] = Idle]
        /\ UNCHANGED <<fs, extFiles, clock, screen>>

\* DeleteProject up to the call of os.RemoveAll: the folder is found and the id
\* taken off the recent list
DeleteUnlist(g, projectID) ==
    LET dir == findProjectDirectory(fs, projectID)
    IN  /\ inflight[g] = Idle
        /\ IF dir = None
           THEN /\ last' = [call |-> [op |-> "delete", id |-> projectID], ok |-> FALSE]
                /\ UNCHANGED <<inflight, settingsFile>>
           ELSE /\ settingsFile' =
                      SaveAppSettings([GetAppSettings(settingsFile) EXCEPT
                                          !.recentProjects = RemoveFirst(@, projectID)])
                /\ inflight' = [inflight EXCEPT ![g] =
                                   [op |-> "delete", id |-> projectID, step |-> "",
                                    dir |-> dir[1], doc |-> <<>>, phase |-> "unlisted",
                                    version |-> 0]]
                /\ UNCHANGED last
        /\ UNCHANGED <<fs, extFiles, clock, screen>>

\* os.RemoveAll of the folder, and the return of DeleteProject
DeleteRemove(g) ==
    LET c == inflight[g]
    IN  /\ c.op = "delete"
        /\ fs' = [f \in DOMAIN fs \ {c.dir} |-> fs[f]]
        /\ last' = [call |-> [op |-> "delete", id |-> c.id], ok |-> TRUE]
        /\ inflight' = [inflight EXCEPT ![g] = Idle]
        /\ UNCHANGED <<settingsFile, extFiles, clock, screen>>

\* the process stops where it is and is started again: the calls in flight are
\* gone, the files are as they were left
Crash ==
    /\ \E g \in Goroutines : inflight[g] # Idle
    /\ inflight' = [g \in Goroutines |-> Idle]
    /\ last' = NoCall
    /\ UNCHANGED <<fs, settingsFile, extFiles, clock, screen>>

Init ==
    /\ fs = [f \in {} |-> None]
    /\ settingsFile = None
    /\ extFiles = SourcePaths
    /\ clock = 0
    /\ last = NoCall
    /\ inflight = [g \in Goroutines |-> Idle]
    /\ screen = FreshScreen

\* ------------------------------------------------------------------------
\* The registry: creation, lookup, update, listing and deletion of projects
\* ------------------------------------------------------------------------

NextRegistry ==
    \/ CreateAmong(YouTubeInputs \cup LocalInputs \cup BadInputs, {NoName},
                   {"none", "saveConfig"}, ChoosableIds, MaxFolders)
    \/ LoadAmong({"none"})
    \/ UpdateAmong({"rename"}, {"none"})
    \/ DeleteAmong({"none"})

SpecRegistry == Init /\ [][NextRegistry]_vars

\* ------------------------------------------------------------------------
\* Every operation of the application, on one source of each kind
\* ------------------------------------------------------------------------

Next ==
    \/ CreateAmong({<<"video", VideoPath>>}, {NoName}, {"none", "recentWrite"}, NearIds, SoleFolder)
    \/ LoadAmong({"none"})
    \/ UpdateAmong({"rename"}, {"none"})
    \/ ListAmong({"none"})
    \/ DeleteAmong({"none", "settingsWrite"})
    \/ CopyAmong({"ok"}, {"none"})
    \/ StepAmong({"download"}, {OutSuccess})
    \/ FullAmong({1, Len(Steps) + 1}, {OutFailure})

Spec == Init /\ [][Next]_vars

\* ------------------------------------------------------------------------
\* The file reference manager: linked sources and their copy into the project
\* ------------------------------------------------------------------------

NextCopy ==
    \/ CreateAmong(LocalInputs, {NoName}, {"none"}, ChoosableIds, SoleFolder)
    \/ UpdateAmong({"linkAudio"}, {"none"})
    \/ CopyAmong(CopyOutcomes, UpdateFaults)
    \/ SourceRemoved
    \/ DeleteAmong({"none"})
    \/ Tick

SpecCopy == Init /\ [][NextCopy]_vars

\* ------------------------------------------------------------------------
\* The pipeline orchestrator
\* ------------------------------------------------------------------------

NextPipeline ==
    \/ CreateAmong({<<"youtube", BareId>>, <<"video", VideoPath>>}, {NoName}, {"none"}, ChoosableIds, SoleFolder)
    \/ StepAmong({"download", "combine"}, {OutSuccess, OutFailure})
    \/ FullAmong(1..(Len(Steps) + 1), Outcomes)
    \/ DeleteAmong({"none"})

SpecPipeline == Init /\ [][NextPipeline]_vars

\* ------------------------------------------------------------------------
\* The registry when reading or writing a file fails
\* ------------------------------------------------------------------------

ListFaults == {"none", "settingsRead"}

NextFaults ==
    \/ CreateAmong({<<"video", VideoPath>>}, {NoName}, {"none", "saveConfig"}, NearIds,
                   MaxFolders)
    \/ LoadAmong(LoadFaults)
    \/ ListAmong(ListFaults)
    \/ DeleteAmong(DeleteFaults)

SpecFaults == Init /\ [][NextFaults]_vars

\* ------------------------------------------------------------------------
\* Edits of stored projects as time passes
\* ------------------------------------------------------------------------

Edits == {"rename", "linkAudio", "gone"}

NextUpdate ==
    \/ CreateAmong({<<"youtube", BareId>>, <<"video", VideoPath>>}, {NoName}, {"none"},
                   NearIds, MaxFolders)
    \/ UpdateAmong(Edits, UpdateFaults)
    \/ LoadAmong({"none"})
    \/ Tick

SpecUpdate == Init /\ [][NextUpdate]_vars

\* ------------------------------------------------------------------------
\* Single steps of the pipeline, with every outcome of the executor
\* ------------------------------------------------------------------------

RunSteps == {"download", "translate"}

NextSteps ==
    \/ CreateAmong({<<"youtube", BareId>>, <<"video", VideoPath>>}, {NoName}, {"none"},
                   NearIds, SoleFolder)
    \/ StepAmong(RunSteps, Outcomes \cup Crashes)
    \/ UpdateAmong({"rename", "stale"}, {"none"})
    \/ LoadAmong({"none"})
    \/ DeleteAmong({"none"})

SpecSteps == Init /\ [][NextSteps]_vars

\* ------------------------------------------------------------------------
\* The calls of the interface when they overlap
\* ------------------------------------------------------------------------

NextConcurrent ==
    \/ CreateAmong({<<"video", VideoPath>>}, {NoName}, {"none"}, NearIds, SoleFolder)
    \/ \E g \in Goroutines, id \in LookupIds : BeginStep(g, id, "download")
    \/ \E g \in Goroutines, o \in {OutSuccess, OutFailure} : EndStep(g, o)
    \/ \E g \in Goroutines, project \in UpdateInputs({"rename", "linkAudio"}) :
           BeginUpdate(g, project)
    \/ \E g \in Goroutines : OpenFile(g)
    \/ \E g \in Goroutines : WriteFile(g)
    \/ LoadAmong({"none"})

SpecConcurrent == Init /\ [][NextConcurrent]_vars

\* ------------------------------------------------------------------------
\* Creation from every kind of source, accepted or not
\* ------------------------------------------------------------------------

\* the sources of the model and one of a type CreateProject's switch does not know
CreateInputs ==
    YouTubeInputs \cup LocalInputs \cup BadInputs \cup {<<"image", VideoPath>>}

NextCreate ==
    \/ CreateAmong(CreateInputs, {NoName}, {"none"}, NearIds, MaxFolders)
    \/ SourceRemoved
    \/ DeleteAmong({"none"})

SpecCreate == Init /\ [][NextCreate]_vars

\* ------------------------------------------------------------------------
\* The clash resolution; a loop that can take a turn does take it
\* ------------------------------------------------------------------------

NextClash ==
    \/ CreateAmong({<<"youtube", BareId>>, <<"video", VideoPath>>}, {NoName}, {"none"},
                   NearIds, MaxFolders)
    \/ \E g \in Goroutines : BeginCreate(g, "youtube", BareId, Lang, NoName)
    \/ \E g \in Goroutines : ClashAttempt(g)
    \/ DeleteAmong({"none"})

SpecClash ==
    Init /\ [][NextClash]_vars /\ WF_vars(\E g \in Goroutines : ClashAttempt(g))

\* ------------------------------------------------------------------------
\* The operations that write a stored document, next to another project
\* ------------------------------------------------------------------------

NextIdentity ==
    \/ CreateAmong({<<"video", VideoPath>>}, {NoName}, {"none"}, NearIds, MaxFolders)
    \/ UpdateAmong({"rename"}, {"none"})
    \/ CopyAmong({"ok"}, {"none"})
    \/ StepAmong({"download"}, {OutSuccess})
    \/ FullAmong({2}, {OutFailure})
    \/ DeleteAmong({"none"})

SpecIdentity == Init /\ [][NextIdentity]_vars

\* ------------------------------------------------------------------------
\* The recent list when it is full and when an id comes again
\* ------------------------------------------------------------------------

NextRecent ==
    \/ CreateAmong({<<"video", VideoPath>>}, {NoName}, {"none"},
                   ChoosableIds \cup SeqRange(RecentProjects), SoleFolder)
    \/ DeleteAmong({"settingsWrite"})

SpecRecent == Init /\ [][NextRecent]_vars

\* ------------------------------------------------------------------------
\* Creation from links whose id part holds a "/"
\* ------------------------------------------------------------------------

NextNested ==
    \/ CreateAmong({<<"youtube", ShortUrl>>, <<"youtube", SlashUrl>>}, {NoName, PlainName},
                   {"none"}, FreshIds, MaxFolders)
    \/ LoadAmong({"none"})
    \/ DeleteAmong({"none"})

SpecNested == Init /\ [][NextNested]_vars

\* ------------------------------------------------------------------------
\* One call at a time, in the steps it takes, with a crash at any of them
\* ------------------------------------------------------------------------

NextCrash ==
    \/ \E in \in {<<"youtube", ShortUrl>>, <<"youtube", SlashUrl>>}, rnd \in UnusedIds :
           /\ Cardinality(DOMAIN fs) < MaxFolders
           /\ CreateResolve(1, in[1], in[2], Lang, NoName, rnd)
    \/ CreateSave(1)
    \/ RecentRead(1)
    \/ RecentWrite(1)
    \/ \E id \in LookupIds : DeleteUnlist(1, id)
    \/ DeleteRemove(1)
    \/ Crash

SpecCrash == Init /\ [][NextCrash]_vars

\* ------------------------------------------------------------------------
\* Two calls of CreateProject that overlap
\* ------------------------------------------------------------------------

NextOverlap ==
    \/ \E g \in Goroutines, in \in {<<"youtube", ShortUrl>>, <<"video", VideoPath>>},
          rnd \in UnusedIds :
           /\ Cardinality(DOMAIN fs) < MaxFolders
           /\ CreateResolve(g, in[1], in[2], Lang, NoName, rnd)
    \/ \E g \in Goroutines : CreateSave(g)
    \/ \E g \in Goroutines : RecentRead(g)
    \/ \E g \in Goroutines : RecentWrite(g)

SpecOverlap == Init /\ [][NextOverlap]_vars

\* ------------------------------------------------------------------------
\* The stepwise pipeline screen
\* ------------------------------------------------------------------------

NextScreen ==
    \/ \E mode \in {"full", "stepwise"}, hasInput \in BOOLEAN : EditScreen(mode, hasInput)
    \/ \E stepKey \in StepNames \cup {ExtractStep} : runStep(stepKey)
    \/ runFullPipeline
    \/ \E i \in DOMAIN screen.pending, resolved \in BOOLEAN : Settle(i, resolved)
    \/ ResetProgress

SpecScreen == Init /\ [][NextScreen]_vars

\* ------------------------------------------------------------------------
\* Properties of the registry
\* ------------------------------------------------------------------------

\* the folders that hold a project
Folders == {f \in DOMAIN fs : HasDoc(fs, f)}

\* the last call was a CreateProject that returned a project
Created == last.call.op = "create" /\ last.ok

Versions == 1..(MaxFolders + 1)

NoDuplicates(s) == \A i \in 1..Len(s) : \A j \in 1..Len(s) : i # j => s[i] # s[j]

\* C4: in every reachable state the persisted recentProjects has at most 5 entries
\* and holds no id twice.
C4_RecentBounded == Len(RecentProjects) <= 5 /\ NoDuplicates(RecentProjects)

\* a create met a full list that did not hold the new id: the oldest id was cut
C4_CapReached ==
    /\ Created /\ last.recentSaved
    /\ Len(last.recentWas) = 5
    /\ last.project.id \notin SeqRange(last.recentWas)

\* C5: after LoadProject succeeds for an id already in recentProjects, the id is
\* at index 0 of the list, once, and the other entries keep their order.
\* LoadProject reads the project and never writes the settings: the id stays
\* where it was.
C5_LoadMovesToFront ==
    [][(/\ last'.call.op = "load" /\ last'.ok
        /\ last'.call.id \in SeqRange(RecentProjects)) =>
          /\ RecentProjects' # <<>>
          /\ RecentProjects'[1] = last'.call.id
          /\ Cardinality({i \in 1..Len(RecentProjects') :
                             RecentProjects'[i] = last'.call.id}) = 1
          /\ RemoveFirst(RecentProjects', last'.call.id)
                = RemoveFirst(RecentProjects, last'.call.id)]_vars

\* C9 as stated: after every create that returns a project, the new id is at
\* index 0 of the persisted recentProjects.
C9_NewIdAtFront ==
    Created => (RecentProjects # <<>> /\ RecentProjects[1] = last.project.id)

\* C9, amended: after a create that returns a project, the new id is at index 0
\* of the persisted recentProjects when addToRecentProjects succeeded; when it
\* failed the project is returned all the same and the list is as it was.
C9_NewIdAtFrontIfSaved ==
    Created =>
        IF last.recentSaved
        THEN RecentProjects # <<>> /\ RecentProjects[1] = last.project.id
        ELSE RecentProjects = last.recentWas

\* a create put its id before the ids of a list that was not empty
C9_PushedToFront ==
    Created /\ last.recentSaved /\ last.recentWas # <<>>
        /\ last.project.id \notin SeqRange(last.recentWas)

\* C10: a project returned by create has its five completedSteps false; a youtube
\* project has a sourceUrl and neither videoFile nor audioFile, a video project
\* has a videoFile and no audioFile, an audio project an audioFile and no
\* videoFile, the reference being linked with the source path as given.
C10_InitialState ==
    Created =>
        LET p    == last.project
            refs == p.fileReferences
            src  == last.call.source
            linked(optRef) == optRef # None /\ optRef[1].isLinked /\ optRef[1].path = src
        IN  /\ \A s \in StepNames : p.completedSteps[s] = FALSE
            /\ p.sourceType = last.call.sourceType
            /\ p.sourceType \in {"youtube", "video", "audio"}
            /\ p.sourceType = "youtube" =>
                  p.sourceUrl # None /\ refs.videoFile = None /\ refs.audioFile = None
            /\ p.sourceType = "video" => linked(refs.videoFile) /\ refs.audioFile = None
            /\ p.sourceType = "audio" => linked(refs.audioFile) /\ refs.videoFile = None

\* an audio project was created
C10_AudioCreated == Created /\ last.call.sourceType = "audio"

\* ------------------------------------------------------------------------
\* Properties of the pipeline orchestrator
\* ------------------------------------------------------------------------

\* the last call was a RunFullPipeline
FullRun == last.call.op = "runFull"

\* a logged call of RunPipelineStep returned no error and a result with success = true
StageOk(e) ==
    /\ ~e.err
    /\ e.result # None
    /\ "success" \in DOMAIN e.result[1]
    /\ e.result[1].success

\* the calls were made on the steps in their fixed order, once each
InOrder(log) == Len(log) <= Len(Steps) /\ \A i \in 1..Len(log) : log[i].step = Steps[i]

FailedStages(log) == {i \in 1..Len(log) : ~StageOk(log[i])}

\* C6: in every runFull, if stage k is the first that errors or reports
\* success = false, the stages before k were invoked once each in order and
\* succeeded, no stage after k was invoked, and the aggregate result has
\* success = false and names stage k as the failed step.
C6_StopOnFirstFailure ==
    FullRun =>
        LET log    == last.log
            failed == FailedStages(log)
        IN  /\ InOrder(log)
            /\ failed # {} =>
                  LET k == CHOOSE i \in failed : \A j \in failed : i <= j
                  IN  /\ Len(log) = k
                      /\ \A i \in 1..(k - 1) : StageOk(log[i])
                      /\ last.results.success = FALSE
                      /\ last.results.failedStep = Steps[k]

\* a full run failed at its third stage
C6_FailedAtThird == FullRun /\ Len(last.log) = 3 /\ FailedStages(last.log) = {3}

\* C7 as stated: runFull reports success iff the five stages were invoked once
\* each in order, each after the stage before it returned success = true.
C7_SuccessIffAllInvoked ==
    FullRun =>
        (last.results.success <=>
            /\ Len(last.log) = Len(Steps)
            /\ InOrder(last.log)
            /\ \A i \in 1..(Len(Steps) - 1) : StageOk(last.log[i]))

\* C7, amended: runFull reports success iff the five stages were invoked once each
\* in order and all five, the last one too, returned success = true.
C7_SuccessIffAllSucceeded ==
    FullRun =>
        (last.results.success <=>
            /\ Len(last.log) = Len(Steps)
            /\ InOrder(last.log)
            /\ \A i \in 1..Len(Steps) : StageOk(last.log[i]))

\* a full run reported success
C7_FullSuccess == FullRun /\ last.results.success /\ Len(last.log) = Len(Steps)

\* ------------------------------------------------------------------------
\* Properties of the file reference manager
\* ------------------------------------------------------------------------

\* C8: whenever copyFileToProject fails on a linked reference, the reference is
\* as before the call: isLinked true, path and originalPath unchanged.
C8_FailedCopyKeepsReference ==
    last.call.op = "copyLinked" =>
        \A i \in 1..Len(last.calls) :
            ~last.calls[i].ok =>
                /\ last.calls[i].after = last.calls[i].before
                /\ last.calls[i].after.isLinked
                /\ last.calls[i].after.path = last.calls[i].before.path
                /\ last.calls[i].after.originalPath = last.calls[i].before.originalPath

\* a copy failed although the source was there: the write of the bytes failed
C8_CopyFailed ==
    /\ last.call.op = "copyLinked"
    /\ \E i \in 1..Len(last.calls) :
          ~last.calls[i].ok /\ last.calls[i].before.path \in extFiles

\* ------------------------------------------------------------------------
\* Properties of deletion, lookup, update and listing
\* ------------------------------------------------------------------------

\* the step is a call of DeleteProject that returned no error
DeleteSucceeded == last'.call.op = "delete" /\ last'.ok

\* the entries of a recent list other than one id, in their order
Without(recent, projectID) == SelectSeq(recent, LAMBDA x : x # projectID)

\* the ids of the stored project documents
DocIds == {DocOf(fs, f).id : f \in Folders}

FolderRemoved(projectID) == findProjectDirectory(fs, projectID)[1] \notin DOMAIN fs'

\* C12 as stated: whenever the settings document cannot be loaded or written,
\* DeleteProject of an existing project still removes its folder and returns no error.
C12_SettingsFailureNeverAborts ==
    [][\A id \in LookupIds, fault \in SettingsFaults :
          (LoadProject(fs, id).ok /\ DeleteProject(id, fault)) =>
              (last'.ok /\ FolderRemoved(id))]_vars

\* C12: a failure to write the settings document, or to read it when the recent
\* list is updated, does not abort DeleteProject of an existing project: the folder
\* is removed and no error returned. A failure to read it in findProjectDirectory
\* aborts: DeleteProject returns an error and removes nothing.
C12_OnlyTheScanAborts ==
    [][\A id \in LookupIds, fault \in SettingsFaults :
          (LoadProject(fs, id).ok /\ DeleteProject(id, fault)) =>
              IF fault = "findSettings"
              THEN ~last'.ok /\ fs' = fs /\ settingsFile' = settingsFile
              ELSE last'.ok /\ FolderRemoved(id)]_vars

\* DeleteProject returned no error and left the id in recentProjects
C12_DeletedButListed ==
    /\ last.call.op = "delete"
    /\ last.ok
    /\ last.call.id \in SeqRange(RecentProjects)

\* the folders under the projects root that hold a readable project.json with the
\* id; the root is settings.DefaultProjectsPath, so there is none to scan when the
\* settings cannot be read
Holding(projectID, fault) ==
    IF fault = "findSettings" THEN {}
    ELSE {f \in Folders : DocOf(fs, f).id = projectID}

\* C13: LoadProject(id) returns a project iff some immediate subfolder of the
\* projects root holds a readable project.json whose id is id, and then returns
\* the document of such a folder; otherwise it returns a "project not found"
\* error. It changes no folder, no document and not the settings document.
C13_LoadFindsById ==
    [][\A id \in LookupIds, fault \in LoadFaults :
          LoadProjectCall(id, fault) =>
              /\ last'.ok <=> Holding(id, fault) # {}
              /\ last'.ok => \E f \in Holding(id, fault) : last'.project = DocOf(fs, f)
              /\ ~last'.ok => last'.err = "project not found"
              /\ fs' = fs
              /\ settingsFile' = settingsFile]_vars

\* a load returned a project while another folder holds no readable project.json
C13_LoadedPastUnreadable ==
    /\ last.call.op = "load"
    /\ last.ok
    /\ \E f \in DOMAIN fs : ~HasDoc(fs, f)

\* the folder UpdateProject resolves for a project: none when the settings, which
\* name the projects root, cannot be read
Resolved(project, fault) ==
    IF fault = "findSettings" THEN None ELSE findProjectDirectory(fs, project.id)

\* C14: UpdateProject(project) on an id no folder holds returns an error, creates
\* no document and changes nothing. On an id a folder holds it replaces the
\* document of that folder by the given one with lastModified set to the current
\* time (unless the write fails), and leaves every other document and
\* recentProjects as they were.
C14_UpdateReplacesOne ==
    [][\A project \in UpdateInputs(Edits), fault \in UpdateFaults :
          UpdateProject(project, fault) =>
              LET dir == Resolved(project, fault)
              IN  IF dir = None
                  THEN ~last'.ok /\ fs' = fs /\ settingsFile' = settingsFile
                  ELSE /\ last'.ok <=> fault = "none"
                       /\ last'.ok =>
                              DocOf(fs', dir[1]) =
                                  [project EXCEPT !.lastModified = RFC3339(clock)]
                       /\ DOMAIN fs' = DOMAIN fs
                       /\ \A g \in DOMAIN fs \ {dir[1]} : fs'[g] = fs[g]
                       /\ settingsFile' = settingsFile]_vars

\* an update stored a document stamped later than the project was created, next
\* to another project
C14_Restamped ==
    /\ last.call.op = "update"
    /\ last.ok
    /\ Cardinality(Folders) = MaxFolders
    /\ \E f \in Folders : DocOf(fs, f).lastModified # DocOf(fs, f).created

\* the ids of recentProjects that some project.json carries, in the list's order
Loadable == SelectSeq(RecentProjects, LAMBDA id : id \in DocIds)

\* a result of GetRecentProjects lists the loadable projects, in the list's order
ListsLoadable(projects) ==
    /\ Len(projects) = Len(Loadable)
    /\ \A i \in 1..Len(Loadable) :
          /\ projects[i].id = Loadable[i]
          /\ projects[i] = LoadProject(fs, Loadable[i]).project

\* C15 as stated: every call of GetRecentProjects returns the sequence of the
\* loadable projects of recentProjects, in order, and leaves recentProjects alone.
C15_ListAlwaysReturns ==
    [][\A fault \in ListFaults :
          GetRecentProjects(fault) =>
              /\ last'.ok
              /\ ListsLoadable(last'.projects)
              /\ settingsFile' = settingsFile]_vars

\* C15: when the settings document can be read, GetRecentProjects returns the
\* projects of the loadable ids of recentProjects, in the list's order, skipping
\* the others without an error; when it cannot, GetRecentProjects returns an error
\* and no sequence. In both cases recentProjects is left as it was.
C15_ListReturnsLoadable ==
    [][\A fault \in ListFaults :
          GetRecentProjects(fault) =>
              /\ last'.ok <=> fault = "none"
              /\ last'.ok => ListsLoadable(last'.projects)
              /\ settingsFile' = settingsFile
              /\ fs' = fs]_vars

\* a listing skipped an id that no longer loads and returned a later one
C15_SkippedFirst ==
    /\ last.call.op = "listRecent"
    /\ last.ok
    /\ last.projects # <<>>
    /\ RecentProjects[1] \notin DocIds

\* ------------------------------------------------------------------------
\* Properties of single pipeline steps
\* ------------------------------------------------------------------------

\* the executor printed one JSON document with a boolean success field
HasSuccessField(o) == o.stdout # None /\ "success" \in DOMAIN o.stdout[1]

\* the executor kept its contract: exit code zero iff success = true
FollowsContract(o) == HasSuccessField(o) /\ (o.exit = 0 <=> o.stdout[1].success)

\* a contract-keeping executor reported success = false with an error string
BusinessFailure(o) ==
    /\ FollowsContract(o)
    /\ ~o.stdout[1].success
    /\ "error" \in DOMAIN o.stdout[1]

\* the executor exited non-zero or printed no JSON document
InvocationFailure(o) == o.exit # 0 \/ o.stdout = None

\* the step is RunPipelineStep(id, s) on a stored project with executor outcome o
StepRan(id, s, o) == findProjectDirectory(fs, id) # None /\ RunPipelineStepCall(id, s, o)

\* C16: RunPipelineStep returns an error whenever the executor exits non-zero or
\* prints unparsable output, and a failure reported by a contract-keeping executor
\* (success = false with an error string) is returned as a step result, not as an
\* error.
C16_BusinessFailureIsAResult ==
    [][\A id \in LookupIds, s \in RunSteps, o \in Outcomes :
          StepRan(id, s, o) =>
              IF BusinessFailure(o)
              THEN last'.ok /\ last'.result = o.stdout
              ELSE InvocationFailure(o) => ~last'.ok]_vars

\* the executor printed a JSON document whose success field is missing or
\* disagrees with the exit code
BreaksContract(o) == o.stdout # None /\ ~FollowsContract(o)

\* C17 as stated: RunPipelineStep returns an error, not a step result, whenever
\* the exit code and the reported success disagree or the document has no
\* boolean success field.
C17_MismatchIsAnError ==
    [][\A id \in LookupIds, s \in RunSteps, o \in Outcomes :
          (StepRan(id, s, o) /\ BreaksContract(o)) => ~last'.ok]_vars

\* C17: RunPipelineStep returns an error exactly when the executor exits non-zero
\* or its output is not a JSON document; with exit code zero the parsed document
\* is returned as the step result whatever its success field says, also when the
\* field is false or missing.
C17_OnlyExitAndSyntaxChecked ==
    [][\A id \in LookupIds, s \in RunSteps, o \in Outcomes :
          StepRan(id, s, o) =>
              /\ last'.ok <=> ~InvocationFailure(o)
              /\ last'.ok => last'.result = o.stdout
              /\ ~last'.ok => last'.result = None]_vars

\* RunPipelineStep returned a step result that does not report success
C17_UnsuccessfulResult ==
    /\ last.call.op = "runStep"
    /\ last.ok
    /\ ~ReportsSuccess(last.result[1])

\* the stored completedSteps flag of a step of the project RunPipelineStep resolves
Flag(fsys, projectID, s) ==
    DocOf(fsys, findProjectDirectory(fsys, projectID)[1]).completedSteps[s]

\* the call of RunPipelineStep of this step failed: it returned an error, or a
\* result that does not report success
StepFailed == ~last'.ok \/ ~ReportsSuccess(last'.result[1])

\* C18 as stated: after a failed RunPipelineStep(id, s) the stored completedSteps
\* flag of s is what it was before the call.
C18_FailureKeepsFlag ==
    [][\A id \in LookupIds, s \in RunSteps, o \in Outcomes :
          (StepRan(id, s, o) /\ StepFailed) => Flag(fs', id, s) = Flag(fs, id, s)]_vars

\* C18: after a failed RunPipelineStep(id, s) the stored flag of s is what it was
\* before the call only if the executor stored no flag (it crashed outside the
\* step); otherwise it is the flag the executor stored: false when the step
\* caught its failure, true when the step finished and the run failed after it.
C18_FailureStoresExecutorFlag ==
    [][\A id \in LookupIds, s \in RunSteps, o \in Outcomes :
          (StepRan(id, s, o) /\ StepFailed) =>
              Flag(fs', id, s) = IF o.mark = None THEN Flag(fs, id, s) ELSE o.mark[1]]_vars

\* a run of a step failed and the flag of the step is stored true
C18_FailedButCompleted ==
    /\ last.call.op = "runStep"
    /\ ~last.ok
    /\ Flag(fs, last.call.id, last.call.step)

\* C19 as stated: when the flag of s is true and a run of s fails, the flag of s
\* is false afterwards.
C19_FailedRerunResets ==
    [][\A id \in LookupIds, s \in RunSteps, o \in Outcomes :
          (StepRan(id, s, o) /\ Flag(fs, id, s) /\ StepFailed) => ~Flag(fs', id, s)]_vars

\* C19: when the flag of s is true and a run of s fails, the flag of s is false
\* afterwards iff the step caught its failure in the executor, which then stores
\* false; after any other failed run the flag is still true.
C19_CaughtFailureResets ==
    [][\A id \in LookupIds, s \in RunSteps, o \in Outcomes :
          (StepRan(id, s, o) /\ Flag(fs, id, s) /\ StepFailed) =>
              (~Flag(fs', id, s) <=> o.mark = Some(FALSE))]_vars

\* a failed run of the download step stored the flag false in a project whose
\* video an earlier run of the step had downloaded
C19_ResetAfterRerun ==
    /\ last.call.op = "runStep"
    /\ last.call.step = "download"
    /\ ~last.ok
    /\ findProjectDirectory(fs, last.call.id) # None
    /\ ~Flag(fs, last.call.id, "download")
    /\ LoadProject(fs, last.call.id).project.sourceType = "youtube"
    /\ LoadProject(fs, last.call.id).project.fileReferences.videoFile # None

\* the stored flag of step s of the project in folder f turns from false to true
TurnsTrue(f, s) ==
    /\ HasDoc(fs, f)
    /\ HasDoc(fs', f)
    /\ ~DocOf(fs, f).completedSteps[s]
    /\ DocOf(fs', f).completedSteps[s]

\* C20: a stored completedSteps flag of a step s turns from false to true only in
\* a RunPipelineStep of s whose result reports success = true; no CreateProject,
\* LoadProject, UpdateProject, CopyLinkedFilesToProject, DeleteProject or run of
\* another step turns it true.
C20_OnlySuccessfulRunCompletes ==
    [][\A f \in DOMAIN fs, s \in StepNames :
          TurnsTrue(f, s) =>
              /\ last'.call.op = "runStep"
              /\ last'.call.step = s
              /\ last'.ok
              /\ ReportsSuccess(last'.result[1])]_vars

\* the last call was a RunPipelineStep that returned a result with success = true
StepSucceeded ==
    /\ last.call.op = "runStep"
    /\ last.ok
    /\ ReportsSuccess(last.result[1])

\* C21: when RunPipelineStep(id, s) has returned a result with success = true, a
\* LoadProject(id) made after it returns a project whose completedSteps flag of s
\* is true.
C21_SuccessIsStored ==
    StepSucceeded =>
        /\ LoadProject(fs, last.call.id).ok
        /\ LoadProject(fs, last.call.id).project.completedSteps[last.call.step]

\* a run of the translate step returned success = true
C21_TranslateSucceeded == StepSucceeded /\ last.call.step = "translate"

\* the executor's process ended abnormally without printing a result
Crashed(o) == o.exit # 0 /\ o.stdout = None

\* every stored completedSteps flag is a boolean: there is no stored Running
FlagsAreBoolean(fsys) ==
    \A f \in DOMAIN fsys :
        HasDoc(fsys, f) => \A s \in StepNames : DocOf(fsys, f).completedSteps[s] \in BOOLEAN

\* C22 as stated: a run of a step in which the executor crashes before it reports
\* a result leaves the stored project documents, and with them the flag of the
\* step, as they were before the run.
C22_CrashLeavesDocument ==
    [][\A id \in LookupIds, s \in RunSteps, o \in Outcomes \cup Crashes :
          (StepRan(id, s, o) /\ Crashed(o)) => fs' = fs]_vars

\* C22: no Running state is stored, and RunPipelineStep itself writes nothing: the
\* stored documents change only by what the executor stores. The executor stores
\* the flag at the end of the step, before it reports its result: a crash before
\* that leaves the documents as they were, a crash after it leaves the flag the
\* executor stored although no result was reported.
C22_OnlyExecutorStores ==
    [][\A id \in LookupIds, s \in RunSteps, o \in Outcomes \cup Crashes :
          RunPipelineStepCall(id, s, o) =>
              /\ FlagsAreBoolean(fs')
              /\ settingsFile' = settingsFile
              /\ (findProjectDirectory(fs, id) = None \/ o.mark = None) => fs' = fs
              /\ (StepRan(id, s, o) /\ Crashed(o) /\ o.mark # None) =>
                     Flag(fs', id, s) = o.mark[1]]_vars

\* a run of the download step returned an error after the executor had stored
\* the downloaded video and the flag of the step
C22_StoredBeforeCrash ==
    /\ last.call.op = "runStep"
    /\ last.call.step = "download"
    /\ ~last.ok
    /\ findProjectDirectory(fs, last.call.id) # None
    /\ Flag(fs, last.call.id, "download")
    /\ LoadProject(fs, last.call.id).project.sourceType = "youtube"
    /\ LoadProject(fs, last.call.id).project.fileReferences.videoFile # None

Executors == {g \in Goroutines : inflight[g].op = "runStep"}

\* C23: at most one step executor is running at any time, over all steps and all
\* projects, whatever calls of RunPipelineStep the interface issues
C23_OneExecutorAtATime == Cardinality(Executors) <= 1


Updating(dir) == {g \in Goroutines : inflight[g].op = "update" /\ inflight[g].dir = dir}

\* C24: when two calls of UpdateProject for one project interleave, the document
\* stored once both have returned is, field by field, the document of the call
\* that wrote last (with the time stamp UpdateProject gave it)
C24_LastWriterWins ==
    ("dir" \in DOMAIN last /\ Updating(last.dir) = {}) =>
        HasDoc(fs, last.dir) /\ DocOf(fs, last.dir) = last.project


SourceRefs == {"videoFile", "audioFile"}

\* the source references a folder stores as copied into the project
CopiedRefs(fsys, f) ==
    {k \in SourceRefs : HasDoc(fsys, f) /\ DocOf(fsys, f).fileReferences[k] # None
                            /\ ~DocOf(fsys, f).fileReferences[k][1].isLinked}

\* C25: a stored source reference whose isLinked is false is never stored with
\* isLinked true again, as long as the project is stored
C25_CopiedStaysCopied ==
    [][\A f \in DOMAIN fs : \A k \in CopiedRefs(fs, f) :
          (HasDoc(fs', f) /\ DocOf(fs', f).id = DocOf(fs, f).id) =>
              ~IsLinkedRef(DocOf(fs', f).fileReferences[k])]_vars


\* ------------------------------------------------------------------------
\* Properties of the copy of linked files
\* ------------------------------------------------------------------------

\* the source references the projects folder stores
StoredRefs ==
    {DocOf(fs, x[1]).fileReferences[x[2]][1] :
        x \in {y \in (DOMAIN fs) \X SourceRefs :
                  HasDoc(fs, y[1]) /\ DocOf(fs, y[1]).fileReferences[y[2]] # None}}

\* C26: copyFileToProject on a reference that is no longer linked returns no
\* error and changes neither the reference nor a file; so a second call on the
\* reference the first call left ends as the first did, leaves the reference as
\* it was and writes no file the first did not write
C26_CopyTwiceIsCopyOnce ==
    \A r \in StoredRefs, io \in CopyOutcomes :
        LET once  == copyFileToProject(InputDir, r, io, extFiles)
            twice == copyFileToProject(InputDir, once.ref, io, extFiles)
        IN  /\ ~r.isLinked => once = [ok |-> TRUE, ref |-> r, wrote |-> {}]
            /\ twice.ok = once.ok
            /\ twice.ref = once.ref
            /\ twice.wrote \subseteq once.wrote

\* the folder stores a reference a call has copied and a linked one whose source
\* is there to be copied
C26_StoredCopied ==
    /\ \E r \in StoredRefs : ~r.isLinked /\ Base(r.path) \in UNION {fs[f].input : f \in DOMAIN fs}
    /\ \E r \in StoredRefs : r.isLinked /\ r.path \in extFiles


\* the last call copied the video file and then failed on the audio file
VideoCopiedAudioFailed ==
    /\ last.call.op = "copyLinked"
    /\ Len(last.calls) = Cardinality(SourceRefs)
    /\ last.calls[1].field = "videoFile" /\ last.calls[1].ok
    /\ last.calls[2].field = "audioFile" /\ ~last.calls[2].ok

\* the reference is stored as copied: not linked, its path inside the project
IsCopiedRef(optRef) ==
    optRef # None /\ ~optRef[1].isLinked /\ optRef[1].path = Join(InputDir, Base(optRef[1].path))

\* C27: when CopyLinkedFilesToProject copies the video file and then fails on the
\* audio file it returns an error, and the project loaded afterwards records the
\* video file as copied and the audio file as still linked
C27_PartialCopyIsStored ==
    VideoCopiedAudioFailed =>
        LET loaded == LoadProject(fs, last.call.id)
        IN  /\ ~last.ok
            /\ loaded.ok
            /\ IsCopiedRef(loaded.project.fileReferences.videoFile)
            /\ IsLinkedRef(loaded.project.fileReferences.audioFile)


\* the step is a call of CopyLinkedFilesToProject that returned no error
CopySucceeded == last'.call.op = "copyLinked" /\ last'.ok

\* the call copied the file of a linked reference
CopiedOne(calls) == \E i \in 1..Len(calls) : calls[i].ok /\ calls[i].before.isLinked

\* C28: after CopyLinkedFilesToProject(id) returns no error, every source
\* reference of the project loaded by id is copied (not linked, its path inside
\* the project); the folder changes only if the call copied a file, else the
\* document is as before, lastModified included
C28_SuccessLeavesNoLink ==
    [][\A id \in LookupIds, run \in CopyRuns(CopyOutcomes, UpdateFaults) :
          (CopyLinkedFilesToProject(id, run[1], run[2], run[3]) /\ CopySucceeded) =>
              LET loaded == LoadProject(fs', id)
              IN  /\ loaded.ok
                  /\ \A k \in SourceRefs :
                        loaded.project.fileReferences[k] # None =>
                            IsCopiedRef(loaded.project.fileReferences[k])
                  /\ ~CopiedOne(last'.calls) => fs' = fs]_vars

\* a call copied both files, and a later call found nothing left to copy
C28_CopiedBothThenNone ==
    /\ last.call.op = "copyLinked" /\ last.ok /\ last.calls = <<>>
    /\ Cardinality({r \in StoredRefs : ~r.isLinked}) = Cardinality(SourceRefs)
    /\ clock > 0


\* ------------------------------------------------------------------------
\* Properties of CreateProject's refusals and of the clash resolution
\* ------------------------------------------------------------------------

\* the sources CreateProject is to refuse: an unknown source type, a local file
\* that does not exist, a YouTube source with no video id in it
Refused(sourceType, source) ==
    \/ sourceType \notin {"youtube", "video", "audio"}
    \/ sourceType \in {"video", "audio"} /\ source \notin extFiles
    \/ sourceType = "youtube" /\ extractVideoID(source) = <<>>

\* C29: CreateProject returns an error, creates no folder and no document and
\* leaves recentProjects as it was when the source type is unknown, the local
\* source file does not exist or the YouTube source holds no video id
C29_RefusedSourceCreatesNothing ==
    [][\A in \in CreateInputs, rnd \in NearIds :
          (CreateProject(in[1], in[2], Lang, NoName, rnd, "none") /\ Refused(in[1], in[2])) =>
              /\ ~last'.ok
              /\ fs' = fs
              /\ settingsFile' = settingsFile]_vars

\* a local source whose file is gone was refused while a project is stored
C29_RefusedMissingFile ==
    /\ last.call.op = "create" /\ ~last.ok
    /\ last.call.sourceType = "video" /\ last.call.source \notin extFiles
    /\ RecentProjects # <<>>


C31_IdIsImmutable ==
    [][/\ \A f \in DOMAIN fs \cap DOMAIN fs' :
             (HasDoc(fs, f) /\ HasDoc(fs', f)) => DocOf(fs', f).id = DocOf(fs, f).id
       /\ last'.call.op = "update" =>
             \A f \in DOMAIN fs' :
                 (f \notin DOMAIN fs \/ fs'[f] # fs[f]) =>
                     HasDoc(fs, f) /\ DocOf(fs, f).id = last'.call.id]_vars

\* UpdateProject has rewritten the document of a folder that is not the first
\* of the scan
C31_UpdatedSecondFolder ==
    /\ last.call.op = "update" /\ last.ok
    /\ \E f \in Folders, g \in Folders :
          /\ StrLess(f, g)
          /\ DocOf(fs, f).id # last.call.id
          /\ DocOf(fs, g).id = last.call.id
          /\ DocOf(fs, g).name = PlainName


\* ------------------------------------------------------------------------
\* Properties of a copied reference, of the clash names and of the run order
\* ------------------------------------------------------------------------

\* C32: a successful copyFileToProject of a linked reference whose path was P
\* leaves originalPath = P, path = <subdir>/<basename of P> and isLinked false
C32_CopyKeepsProvenance ==
    last.call.op = "copyLinked" =>
        \A i \in 1..Len(last.calls) :
            (last.calls[i].ok /\ last.calls[i].before.isLinked) =>
                /\ last.calls[i].after.originalPath = Some(last.calls[i].before.path)
                /\ last.calls[i].after.path = Join(InputDir, Base(last.calls[i].before.path))
                /\ ~last.calls[i].after.isLinked


\* C33: CreateProject on base name B in a folder of finitely many entries takes
\* the candidate of the least N >= 1 that no entry bears (candidate 1 is B,
\* candidate N > 1 is B followed by " (N)"); the name was not in the folder, and N
\* is the version of the created project
C33_LeastFreeCandidate ==
    [][(last'.call.op = "create" /\ last'.ok) =>
          LET n == last'.project.version
          IN  /\ n >= 1
              /\ last'.folder = Candidate(last'.baseName, n)
              /\ last'.folder \notin DOMAIN fs
              /\ \A m \in 1..(n - 1) : Candidate(last'.baseName, m) \in DOMAIN fs
              /\ DocOf(fs', last'.folder).version = n]_vars

\* a project was created under the bare name again, next to the one suffixed (2)
C33_GapFilled ==
    /\ Created
    /\ last.project.version = 1
    /\ Candidate(last.baseName, 2) \in DOMAIN fs


\* the executor ran on the document of the folder and the call returned what
\* the executor's end amounts to
ExecutorInvoked(dir, s, o) ==
    /\ fs'[dir].json = Some(ExecutorEffect(fs[dir].json[1], s, o, clock))
    /\ last'.ok = (o.exit = 0 /\ o.stdout # None)
    /\ last'.ok => last'.result = o.stdout

\* C34: RunPipelineStep(id, s) of an existing project starts the executor of s
\* whatever the completedSteps flags are, and RunFullPipeline starts at download
\* whatever they are
C34_NoOrderCheck ==
    [][/\ \A id \in LookupIds, s \in {"download", "combine"}, o \in {OutSuccess, OutFailure} :
             (RunPipelineStepCall(id, s, o) /\ findProjectDirectory(fs, id) # None) =>
                 ExecutorInvoked(findProjectDirectory(fs, id)[1], s, o)
       /\ last'.call.op = "runFull" =>
             last'.log # <<>> /\ last'.log[1].step = Steps[1]]_vars

\* combine was run with success on a project whose download is not completed
C34_CombineBeforeDownload ==
    /\ last.call.op = "runStep" /\ last.call.step = "combine" /\ last.ok
    /\ \E f \in Folders :
          /\ DocOf(fs, f).id = last.call.id
          /\ DocOf(fs, f).completedSteps.combine
          /\ ~DocOf(fs, f).completedSteps.download


\* ------------------------------------------------------------------------
\* Properties of the recent list
\* ------------------------------------------------------------------------

\* C35: addToRecentProjects(n) on a list of five ids without n leaves n followed
\* by the first four; on a shorter list without n, n followed by the list; on a
\* list that holds n, n followed by the other ids in their order, as many as
\* before
C35_EvictsLeastRecent ==
    (Created /\ last.recentSaved) =>
        LET was == last.recentWas
            n   == last.project.id
        IN  IF n \in SeqRange(was)
            THEN RecentProjects = <<n>> \o Without(was, n) /\ Len(RecentProjects) = Len(was)
            ELSE IF Len(was) = RecentCap
            THEN RecentProjects = <<n>> \o SubSeq(was, 1, RecentCap - 1)
            ELSE RecentProjects = <<n>> \o was

\* a new id was added to a list of five, and the fifth was dropped
C35_Evicted ==
    /\ Created /\ last.recentSaved
    /\ Len(last.recentWas) = RecentCap
    /\ last.project.id \notin SeqRange(last.recentWas)
    /\ last.recentWas[RecentCap] \notin SeqRange(RecentProjects)


\* ------------------------------------------------------------------------
\* Properties of the stepwise pipeline screen
\* ------------------------------------------------------------------------

\* C36: on the stepwise screen the steps marked completed are closed under
\* predecessors (transcribe after download, translate after transcribe,
\* synthesize after translate, combine after synthesize), at most one call is
\* pending, and one is pending only while isProcessing
C36_OrderedAndSingle ==
    /\ \A i \in 2..Len(Steps) :
          Steps[i] \in screen.completedSteps => Steps[i - 1] \in screen.completedSteps
    /\ Len(screen.pending) <= 1
    /\ screen.pending # <<>> => screen.isProcessing

\* combine is running on a screen whose four earlier steps are completed
C36_CombineStarted ==
    /\ screen.pending = <<"combine">>
    /\ Cardinality(screen.completedSteps \cap StepNames) = Len(Steps) - 1


\* ------------------------------------------------------------------------
\* C40: the folder CreateProject chooses, as a path below the projects root
\* ------------------------------------------------------------------------

\* C40: whenever CreateProject returns a project, the folder name it chose is a
\* single path component, and the scan of the projects root by id finds the
\* new project.
C40_FolderIsOneComponent ==
    (last.call.op = "create" /\ last.ok) =>
        /\ IsEntry(last.folder)
        /\ findProjectDirectory(fs, last.project.id) # None


\* ------------------------------------------------------------------------
\* Properties of calls taken step by step
\* ------------------------------------------------------------------------

\* C37: in every state the calls reach one at a time, the states between two
\* writes of a call and the states a crash leaves included, every id of the
\* recent list is the id of a project LoadProject finds.
C37_RecentResolve ==
    \A i \in DOMAIN RecentProjects : LoadProject(fs, RecentProjects[i]).ok

\* C38: the step of CreateProject that writes project.json never writes it into
\* a folder that holds the project.json of another project.
C38_NeverOverwrites ==
    [][\A g \in Goroutines :
          (inflight[g].op = "create" /\ inflight[g].phase = "resolved"
              /\ inflight'[g].phase = "saved")
              => ~HasDoc(fs, inflight[g].dir)]_vars

\* C39: when no call is in flight, the id of every project a call of
\* CreateProject has stored and returned is in the recent list of the settings
\* file (nothing is deleted here, and the list has room for them all).
C39_BothRecent ==
    (\A g \in Goroutines : inflight[g] = Idle) =>
        \A f \in {h \in DOMAIN fs : HasDoc(fs, h)} :
            DocOf(fs, f).id \in SeqRange(RecentProjects)

====
